---- MODULE Spec2Model ----
(***************************************************************************)
(* Model of the Metashape M3M automation scripts: the project path         *)
(* versioners, the DCIM route scanners (RGB, multispectral, combined) and  *)
(* the multispectral capture grouper.                                      *)
(*                                                                         *)
(* Names on disk are sequences of one-character strings, so that glob      *)
(* patterns and regular expressions are computed on the characters.        *)
(* Project folder names are sequences of string tokens, as the f-strings   *)
(* of the source assemble them.                                            *)
(***************************************************************************)
EXTENDS Integers, Sequences, FiniteSets, TLC

VARIABLES
    script,     \* the script loaded in the console (one source file)
    outDir,     \* output base directory: path -> [isdir, entries]
    calls,      \* the last two versioner calls, oldest first
    touched,    \* a write by anything but the versioner since the last call
    ntpath,     \* os.path is ntpath: glob folds case (posixpath otherwise)
    dcimExists, \* the dcim_path argument names an existing directory
    dcimPath,   \* the parts of the dcim_path argument
    dcim,       \* the DCIM folder: its entries in os.listdir order
    scan,       \* the last scan: [fn, arg, result]
    batch,      \* the routes a run works through, in catalog order
    idx,        \* routes of the batch the loop is done with
    attempts,   \* route numbers the route function was called with, in order
    successful, \* the counter `successful` of the batch loop
    failed,     \* the counter `failed` of the batch loop
    returned,   \* what the run returned: "no" while it has not returned
    pc,         \* position in the route function (0: not inside it)
    ops,        \* engine calls of the current route function, in order
    chunk,      \* the chunk: cameras, aligned cameras, markers
    project,    \* project folder and file name the route saves to
    outcome,    \* what the route function returned ("none" before it does)
    lookups,    \* the GCP files looked up, in order: what each lookup came to
    config,     \* the configuration globals of a multi-route script
    run,        \* the entry point called and the arguments it resolved
    gui         \* the configuration tool: its fields, lists and config file

pipeVars == <<batch, idx, attempts, successful, failed, returned, pc, ops,
              chunk, project, outcome, lookups, config, run, gui>>

vars == <<script, outDir, calls, touched, ntpath, dcimExists, dcimPath, dcim, scan,
          batch, idx, attempts, successful, failed, returned, pc, ops,
          chunk, project, outcome, lookups, config, run, gui>>

(***************************************************************************)
(* Bounds                                                                  *)
(***************************************************************************)
\* Highest version folder that may exist before the first call.
MaxVersion == 2

\* The versioner is not called once it would pass this many versions beyond
\* MaxVersion (the loop itself is unbounded in the source).
VersionCap == MaxVersion + 1

(***************************************************************************)
(* Small helpers                                                           *)
(***************************************************************************)
Last(s) == s[Len(s)]

\* str(version) for the versions the model reaches.
Str(n) == <<"1", "2", "3", "4", "5", "6", "7", "8", "9">>[n]

\* os.path.join(a, b)
OsPathJoin(a, b) == <<a, b>>

\* "_".join(route_numbers)
RECURSIVE JoinUnderscore(_)
JoinUnderscore(route_numbers) ==
    IF route_numbers = <<>> THEN <<>>
    ELSE IF Len(route_numbers) = 1 THEN <<Head(route_numbers)>>
    ELSE <<Head(route_numbers), "_">> \o JoinUnderscore(Tail(route_numbers))

(***************************************************************************)
(* Characters and strings                                                  *)
(***************************************************************************)
Digits == <<"0", "1", "2", "3", "4", "5", "6", "7", "8", "9">>
UpperLetters == <<"A", "B", "C", "D", "E", "F", "G", "H", "I", "J", "K", "L", "M", "N", "O", "P", "Q", "R", "S", "T", "U", "V", "W", "X", "Y", "Z">>
LowerLetters == <<"a", "b", "c", "d", "e", "f", "g", "h", "i", "j", "k", "l", "m", "n", "o", "p", "q", "r", "s", "t", "u", "v", "w", "x", "y", "z">>

DigitSet == {Digits[i] : i \in 1..Len(Digits)}
UpperSet == {UpperLetters[i] : i \in 1..Len(UpperLetters)}
LowerSet == {LowerLetters[i] : i \in 1..Len(LowerLetters)}

IsDigit(c) == c \in DigitSet
IsUpperLetter(c) == c \in UpperSet
IsLowerLetter(c) == c \in LowerSet

LowerOf == [c \in UpperSet |->
               LowerLetters[CHOOSE i \in 1..Len(UpperLetters) : UpperLetters[i] = c]]
UpperOf == [c \in LowerSet |->
               UpperLetters[CHOOSE i \in 1..Len(LowerLetters) : LowerLetters[i] = c]]
\* The place of a digit in Digits: its value plus one.
DigitValue == [c \in DigitSet |-> CHOOSE i \in 1..Len(Digits) : Digits[i] = c]

\* \w of the re module, on the ASCII characters of the model.
IsWordChar(c) == IsDigit(c) \/ IsUpperLetter(c) \/ IsLowerLetter(c) \/ c = "_"

ToLower(c) == IF IsUpperLetter(c) THEN LowerOf[c] ELSE c
ToUpper(c) == IF IsLowerLetter(c) THEN UpperOf[c] ELSE c

\* str.lower() and str.upper()
Lower(s) == [i \in 1..Len(s) |-> ToLower(s[i])]
Upper(s) == [i \in 1..Len(s) |-> ToUpper(s[i])]

\* t occurs in s at index i.
OccursAt(s, i, t) ==
    /\ i >= 1
    /\ i + Len(t) - 1 <= Len(s)
    /\ \A j \in 1..Len(t) : s[i + j - 1] = t[j]

\* str.endswith(t) and the `t in s` test
EndsWith(s, t) == OccursAt(s, Len(s) - Len(t) + 1, t)
Contains(s, t) == \E i \in 1..Len(s) : OccursAt(s, i, t)

\* The number of characters from index i on that satisfy a character class:
\* what a greedy \d+ or \w+ consumes there.
RECURSIVE DigitRun(_, _)
DigitRun(s, i) ==
    IF i <= Len(s) /\ IsDigit(s[i]) THEN 1 + DigitRun(s, i + 1) ELSE 0

RECURSIVE WordRun(_, _)
WordRun(s, i) ==
    IF i <= Len(s) /\ IsWordChar(s[i]) THEN 1 + WordRun(s, i + 1) ELSE 0

\* Concatenation of a sequence of sequences.
RECURSIVE Flatten(_)
Flatten(ss) == IF ss = <<>> THEN <<>> ELSE Head(ss) \o Flatten(Tail(ss))

\* The subsequence of s at the indexes in S, in the order of s.
RECURSIVE PickFrom(_, _, _)
PickFrom(s, S, i) ==
    IF i > Len(s) THEN <<>>
    ELSE (IF i \in S THEN <<s[i]>> ELSE <<>>) \o PickFrom(s, S, i + 1)

SubSeqsOf(s) == {PickFrom(s, S, 1) : S \in SUBSET (1..Len(s))}

\* Python's string order on strings of digits (route numbers).
RECURSIVE StrLess(_, _)
StrLess(a, b) ==
    IF b = <<>> THEN FALSE
    ELSE IF a = <<>> THEN TRUE
    ELSE IF Head(a) = Head(b) THEN StrLess(Tail(a), Tail(b))
    ELSE DigitValue[Head(a)] < DigitValue[Head(b)]

(***************************************************************************)
(* glob and the regular expressions of the scanners                        *)
(***************************************************************************)
\* The literal runs of a pattern between its "*".
RECURSIVE SplitStar(_)
SplitStar(pat) ==
    LET stars == {i \in 1..Len(pat) : pat[i] = "*"}
        first == CHOOSE i \in stars : \A j \in stars : i <= j
    IN  IF stars = {} THEN <<pat>>
        ELSE <<SubSeq(pat, 1, first - 1)>>
                 \o SplitStar(SubSeq(pat, first + 1, Len(pat)))

\* The runs segs occur in name, in order and without overlap, within the
\* indexes from..to (each at its leftmost place).
RECURSIVE MiddleFits(_, _, _, _)
MiddleFits(name, segs, from, to) ==
    IF segs = <<>> THEN TRUE
    ELSE LET hits == {i \in from..(to - Len(Head(segs)) + 1) :
                         OccursAt(name, i, Head(segs))}
             at == CHOOSE i \in hits : \A j \in hits : i <= j
         IN  /\ hits # {}
             /\ MiddleFits(name, Tail(segs), at + Len(Head(segs)), to)

\* fnmatch of a pattern whose only special character is "*": the first run
\* starts the name, the last run ends it, the others lie between.
SegsMatch(segs, name) ==
    IF Len(segs) = 1 THEN name = segs[1]
    ELSE /\ Len(segs[1]) + Len(Last(segs)) <= Len(name)
         /\ OccursAt(name, 1, segs[1])
         /\ OccursAt(name, Len(name) - Len(Last(segs)) + 1, Last(segs))
         /\ MiddleFits(name, SubSeq(segs, 2, Len(segs) - 1),
                       Len(segs[1]) + 1, Len(name) - Len(Last(segs)))

GlobMatch(pat, name) == SegsMatch(SplitStar(pat), name)

IsHidden(name) == name # <<>> /\ name[1] = "."

\* os.path.normcase: lower case under ntpath, the identity under posixpath.
Normcase(nt, s) == IF nt THEN Lower(s) ELSE s

\* glob.glob(os.path.join(folder_path, pat)): the paths of the entries of the
\* folder whose names match, hidden names left out, in listing order.
PathsIn(folder_path, names) ==
    [i \in 1..Len(names) |-> folder_path \o <<names[i]>>]

Glob(nt, folder_path, files, pat) ==
    PathsIn(folder_path,
            SelectSeq(files,
                      LAMBDA n : /\ ~IsHidden(n)
                                 /\ GlobMatch(Normcase(nt, pat), Normcase(nt, n))))

\* os.path.basename
Basename(path) == Last(path)

\* re.match(r'DJI_\d{12,14}_(\d{3})_.*', folder): matched, and group 1.
ReMatchRoute(folder) ==
    LET n == DigitRun(folder, 5)
        ok == /\ OccursAt(folder, 1, <<"D", "J", "I", "_">>)
              /\ n \in 12..14
              /\ OccursAt(folder, 5 + n, <<"_">>)
              /\ DigitRun(folder, 6 + n) = 3
              /\ OccursAt(folder, 9 + n, <<"_">>)
    IN  [matched |-> ok,
         route_number |-> IF ok THEN SubSeq(folder, 6 + n, 8 + n) ELSE <<>>]

\* re.match(r'^route_\d+', part) and group 1 of re.search(r'route_(\d+)', part)
ReMatchRoutePrefix(part) ==
    LET ok == OccursAt(part, 1, <<"r", "o", "u", "t", "e", "_">>) /\ DigitRun(part, 7) >= 1
    IN  [matched |-> ok,
         route_number |-> IF ok THEN SubSeq(part, 7, 6 + DigitRun(part, 7)) ELSE <<>>]

\* re.match(r'DJI_(\d{14})_(\d+)_MS_(\w+)\.TIF', filename, re.IGNORECASE):
\* matched, and the groups timestamp, image_num and band (as written).
ReMatchMsFile(filename) ==
    LET low == Lower(filename)
        m == DigitRun(filename, 20)
        p == 24 + m
        w == WordRun(filename, p)
        ok == /\ OccursAt(low, 1, <<"d", "j", "i", "_">>)
              /\ DigitRun(filename, 5) = 14
              /\ OccursAt(low, 19, <<"_">>)
              /\ m >= 1
              /\ OccursAt(low, 20 + m, <<"_", "m", "s", "_">>)
              /\ w >= 1
              /\ OccursAt(low, p + w, <<".", "t", "i", "f">>)
    IN  [matched |-> ok,
         timestamp |-> IF ok THEN SubSeq(filename, 5, 18) ELSE <<>>,
         image_num |-> IF ok THEN SubSeq(filename, 20, 19 + m) ELSE <<>>,
         band |-> IF ok THEN SubSeq(filename, p, p + w - 1) ELSE <<>>]

(***************************************************************************)
(* RGB and multispectral file selection                                    *)
(***************************************************************************)
\* A selection that adds the generic tiers to the specific one.
TieredRgbFilesSupplemented(nt, folder_path, files) ==
    Glob(nt, folder_path, files, <<"*", "_", "D", ".", "J", "P", "G">>)
        \o Glob(nt, folder_path, files, <<"*", "D", ".", "J", "P", "G">>)
        \o Glob(nt, folder_path, files, <<"*", ".", "J", "P", "G">>)
        \o Glob(nt, folder_path, files, <<"*", ".", "j", "p", "g">>)

\* if not a: a = b; if not a: a = c
FirstNonEmpty(a, b, c) ==
    IF a # <<>> THEN a ELSE IF b # <<>> THEN b ELSE c

\* rgb_single scan_dcim_folders, the RGB half of rgb_ms_combined
\* scan_dcim_folders_combined: *_D.JPG, else *D.JPG, else *.JPG plus *.jpg.
TieredRgbFiles(nt, folder_path, files) ==
    FirstNonEmpty(Glob(nt, folder_path, files, <<"*", "_", "D", ".", "J", "P", "G">>),
                  Glob(nt, folder_path, files, <<"*", "D", ".", "J", "P", "G">>),
                  Glob(nt, folder_path, files, <<"*", ".", "J", "P", "G">>)
                      \o Glob(nt, folder_path, files, <<"*", ".", "j", "p", "g">>))

\* MetashapeConfigTool.find_rgb_files
find_rgb_files(nt, folder_path, files) ==
    FirstNonEmpty(Glob(nt, folder_path, files, <<"*", "_", "D", ".", "J", "P", "G">>),
                  Glob(nt, folder_path, files, <<"*", "D", ".", "J", "P", "G">>),
                  Glob(nt, folder_path, files, <<"*", ".", "J", "P", "G">>)
                      \o Glob(nt, folder_path, files, <<"*", ".", "j", "p", "g">>))

\* rgb_combined scan_dcim_folders: *.JPG, and *.jpg only when that is empty.
AnyJpgFiles(nt, folder_path, files) ==
    FirstNonEmpty(Glob(nt, folder_path, files, <<"*", ".", "J", "P", "G">>),
                  Glob(nt, folder_path, files, <<"*", ".", "j", "p", "g">>),
                  <<>>)

\* rgb_ms_single: the names ending in .jpg (any case) that hold a "D" or "RGB".
NamedRgbImages(root, files) ==
    PathsIn(root,
            SelectSeq(files,
                      LAMBDA f : /\ EndsWith(Lower(f), <<".", "j", "p", "g">>)
                                 /\ \/ Contains(Upper(f), <<"D">>)
                                    \/ Contains(Upper(f), <<"R", "G", "B">>)))

\* rgb_ms_single: the names ending in .tif or .tiff (any case) that hold "MS".
NamedMsImages(root, files) ==
    PathsIn(root,
            SelectSeq(files,
                      LAMBDA f : /\ \/ EndsWith(Lower(f), <<".", "t", "i", "f">>)
                                    \/ EndsWith(Lower(f), <<".", "t", "i", "f", "f">>)
                                 /\ Contains(Upper(f), <<"M", "S">>)))

\* The multispectral tiers of ms_combined, rgb_ms_combined and the GUI tool:
\* the four band patterns, else their lower-case forms, else *MS*.TIF plus
\* *ms*.tif.
TieredMsFiles(nt, folder_path, files) ==
    FirstNonEmpty(Glob(nt, folder_path, files, <<"*", "_", "M", "S", "_", "G", ".", "T", "I", "F">>)
                      \o Glob(nt, folder_path, files, <<"*", "_", "M", "S", "_", "R", ".", "T", "I", "F">>)
                      \o Glob(nt, folder_path, files, <<"*", "_", "M", "S", "_", "R", "E", ".", "T", "I", "F">>)
                      \o Glob(nt, folder_path, files, <<"*", "_", "M", "S", "_", "N", "I", "R", ".", "T", "I", "F">>),
                  Glob(nt, folder_path, files, <<"*", "_", "m", "s", "_", "g", ".", "t", "i", "f">>)
                      \o Glob(nt, folder_path, files, <<"*", "_", "m", "s", "_", "r", ".", "t", "i", "f">>)
                      \o Glob(nt, folder_path, files, <<"*", "_", "m", "s", "_", "r", "e", ".", "t", "i", "f">>)
                      \o Glob(nt, folder_path, files, <<"*", "_", "m", "s", "_", "n", "i", "r", ".", "t", "i", "f">>),
                  Glob(nt, folder_path, files, <<"*", "M", "S", "*", ".", "T", "I", "F">>)
                      \o Glob(nt, folder_path, files, <<"*", "m", "s", "*", ".", "t", "i", "f">>))

\* ms_single: *_MS_*.TIF followed by *_MS_*.tif.
AllMsFiles(nt, folder_path, files) ==
    Glob(nt, folder_path, files, <<"*", "_", "M", "S", "_", "*", ".", "T", "I", "F">>)
        \o Glob(nt, folder_path, files, <<"*", "_", "M", "S", "_", "*", ".", "t", "i", "f">>)

(***************************************************************************)
(* Catalogs                                                                *)
(***************************************************************************)
\* sorted(route_folders, key=lambda x: x['route_number']): a stable sort.
InsertByRoute(sorted, e) ==
    LET k == Cardinality({i \in 1..Len(sorted) :
                             ~StrLess(e.route_number, sorted[i].route_number)})
    IN  SubSeq(sorted, 1, k) \o <<e>> \o SubSeq(sorted, k + 1, Len(sorted))

RECURSIVE SortedByRoute(_)
SortedByRoute(route_folders) ==
    IF route_folders = <<>> THEN <<>>
    ELSE InsertByRoute(SortedByRoute(SubSeq(route_folders, 1, Len(route_folders) - 1)),
                       Last(route_folders))

\* One pass of the for-loop of a listing scanner: EntriesOf[i] is what the
\* i-th directory entry appends to route_folders.
Catalog(exists, EntriesOf) ==
    IF ~exists THEN <<>> ELSE SortedByRoute(Flatten(EntriesOf))

\* rgb_single scan_dcim_folders
RgbSingleRecord(folder, folder_path, route_number, rgb_files) ==
    IF rgb_files # <<>>
    THEN <<[folder_name |-> folder, folder_path |-> folder_path,
            route_number |-> route_number,
            rgb_count |-> Len(rgb_files), image_files |-> rgb_files]>>
    ELSE <<>>

RgbSingleEntry(nt, dcim_path, e) ==
    IF e.isdir /\ ReMatchRoute(e.name).matched
    THEN RgbSingleRecord(e.name, dcim_path \o <<e.name>>,
                         ReMatchRoute(e.name).route_number,
                         TieredRgbFiles(nt, dcim_path \o <<e.name>>, e.files))
    ELSE <<>>

scan_dcim_folders_rgb_single(nt, exists, dcim_path, listing) ==
    Catalog(exists, [i \in 1..Len(listing) |-> RgbSingleEntry(nt, dcim_path, listing[i])])

\* rgb_combined scan_dcim_folders
RgbCombinedRecord(folder, folder_path, route_number, jpg_files) ==
    IF jpg_files # <<>>
    THEN <<[folder_name |-> folder, folder_path |-> folder_path,
            route_number |-> route_number,
            image_count |-> Len(jpg_files), image_files |-> jpg_files]>>
    ELSE <<>>

RgbCombinedEntry(nt, dcim_path, e) ==
    IF e.isdir /\ ReMatchRoute(e.name).matched
    THEN RgbCombinedRecord(e.name, dcim_path \o <<e.name>>,
                           ReMatchRoute(e.name).route_number,
                           AnyJpgFiles(nt, dcim_path \o <<e.name>>, e.files))
    ELSE <<>>

scan_dcim_folders_rgb_combined(nt, exists, dcim_path, listing) ==
    Catalog(exists, [i \in 1..Len(listing) |-> RgbCombinedEntry(nt, dcim_path, listing[i])])

\* rgb_ms_combined scan_dcim_folders_combined
RgbMsCombinedRecord(folder, folder_path, route_number, rgb_files, ms_files) ==
    IF rgb_files # <<>> /\ ms_files # <<>>
    THEN <<[folder_name |-> folder, folder_path |-> folder_path,
            route_number |-> route_number,
            rgb_count |-> Len(rgb_files), ms_count |-> Len(ms_files),
            total_count |-> Len(rgb_files \o ms_files),
            image_files |-> rgb_files \o ms_files,
            rgb_files |-> rgb_files, ms_files |-> ms_files]>>
    ELSE <<>>

RgbMsCombinedEntry(nt, dcim_path, e) ==
    IF e.isdir /\ ReMatchRoute(e.name).matched
    THEN RgbMsCombinedRecord(e.name, dcim_path \o <<e.name>>,
                             ReMatchRoute(e.name).route_number,
                             TieredRgbFiles(nt, dcim_path \o <<e.name>>, e.files),
                             TieredMsFiles(nt, dcim_path \o <<e.name>>, e.files))
    ELSE <<>>

scan_dcim_folders_rgb_ms_combined(nt, exists, dcim_path, listing) ==
    Catalog(exists, [i \in 1..Len(listing) |-> RgbMsCombinedEntry(nt, dcim_path, listing[i])])

\* ms_combined scan_dcim_folders_ms: the band tally of the selected files.
BandOf(file_path) ==
    IF Contains(Upper(Basename(file_path)), <<"_", "M", "S", "_", "G", ".">>) THEN "G"
    ELSE IF Contains(Upper(Basename(file_path)), <<"_", "M", "S", "_", "R", ".">>) THEN "R"
    ELSE IF Contains(Upper(Basename(file_path)), <<"_", "M", "S", "_", "R", "E", ".">>) THEN "RE"
    ELSE IF Contains(Upper(Basename(file_path)), <<"_", "M", "S", "_", "N", "I", "R", ".">>) THEN "NIR"
    ELSE "none"

BandTally(ms_files) ==
    [b \in {"G", "R", "RE", "NIR"} |->
        Cardinality({i \in 1..Len(ms_files) : BandOf(ms_files[i]) = b})]

MsCombinedRecord(folder, folder_path, route_number, ms_files) ==
    IF ms_files # <<>>
    THEN <<[folder_name |-> folder, folder_path |-> folder_path,
            route_number |-> route_number,
            image_count |-> Len(ms_files), image_files |-> ms_files,
            bands |-> BandTally(ms_files)]>>
    ELSE <<>>

MsCombinedEntry(nt, dcim_path, e) ==
    IF e.isdir /\ ReMatchRoute(e.name).matched
    THEN MsCombinedRecord(e.name, dcim_path \o <<e.name>>,
                          ReMatchRoute(e.name).route_number,
                          TieredMsFiles(nt, dcim_path \o <<e.name>>, e.files))
    ELSE <<>>

scan_dcim_folders_ms_combined(nt, exists, dcim_path, listing) ==
    Catalog(exists, [i \in 1..Len(listing) |-> MsCombinedEntry(nt, dcim_path, listing[i])])

\* MetashapeConfigTool.find_ms_files
find_ms_files(nt, folder_path, files) == TieredMsFiles(nt, folder_path, files)

\* MetashapeConfigTool.scan_dcim_folders
ConfigToolRecord(folder, route_number, processing_type, rgb_files, ms_files) ==
    IF processing_type = "RGB" /\ rgb_files # <<>>
    THEN <<[folder_name |-> folder, route_number |-> route_number,
            image_count |-> Len(rgb_files), type |-> "RGB"]>>
    ELSE IF processing_type = "MS" /\ ms_files # <<>>
    THEN <<[folder_name |-> folder, route_number |-> route_number,
            image_count |-> Len(ms_files), type |-> "MS"]>>
    ELSE IF processing_type = "Combined" /\ rgb_files # <<>> /\ ms_files # <<>>
    THEN <<[folder_name |-> folder, route_number |-> route_number,
            image_count |-> Len(rgb_files) + Len(ms_files), type |-> "RGB+MS",
            rgb_count |-> Len(rgb_files), ms_count |-> Len(ms_files)]>>
    ELSE <<>>

ConfigToolEntry(nt, dcim_path, processing_type, e) ==
    IF e.isdir /\ ReMatchRoute(e.name).matched
    THEN ConfigToolRecord(e.name, ReMatchRoute(e.name).route_number, processing_type,
                          find_rgb_files(nt, dcim_path \o <<e.name>>, e.files),
                          find_ms_files(nt, dcim_path \o <<e.name>>, e.files))
    ELSE <<>>

scan_dcim_folders_config_tool(nt, exists, dcim_path, processing_type, listing) ==
    Catalog(exists, [i \in 1..Len(listing) |->
                        ConfigToolEntry(nt, dcim_path, processing_type, listing[i])])

(***************************************************************************)
(* The multispectral capture grouper of ms_single                          *)
(***************************************************************************)
\* ['G', 'NIR', 'R', 'RE']
RequiredBands == <<<<"G">>, <<"N", "I", "R">>, <<"R">>, <<"R", "E">>>>

\* bands[band] = file_path on a dict
SetBand(bands, band, file_path) ==
    [b \in DOMAIN bands \cup {band} |-> IF b = band THEN file_path ELSE bands[b]]

\* The loop over ms_files: capture_groups in insertion order, each with its
\* key and its band -> file dict, and band_counts.
RECURSIVE GroupCaptures(_, _, _)
GroupCaptures(ms_files, capture_groups, band_counts) ==
    IF ms_files = <<>>
    THEN [capture_groups |-> capture_groups, band_counts |-> band_counts]
    ELSE LET file_path == Head(ms_files)
             timestamp_match == ReMatchMsFile(Basename(file_path))
             band == Upper(timestamp_match.band)
             capture_key == timestamp_match.timestamp \o <<"_">>
                                \o timestamp_match.image_num
             known == {i \in 1..Len(capture_groups) :
                          capture_groups[i].key = capture_key}
             grouped ==
                 IF known = {}
                 THEN Append(capture_groups,
                             [key |-> capture_key, bands |-> (band :> file_path)])
                 ELSE [i \in 1..Len(capture_groups) |->
                          IF i \in known
                          THEN [key |-> capture_key,
                                bands |-> SetBand(capture_groups[i].bands, band, file_path)]
                          ELSE capture_groups[i]]
             counted ==
                 IF band \in DOMAIN band_counts
                 THEN [band_counts EXCEPT ![band] = @ + 1]
                 ELSE band_counts
         IN  IF timestamp_match.matched
             THEN GroupCaptures(Tail(ms_files), grouped, counted)
             ELSE GroupCaptures(Tail(ms_files), capture_groups, band_counts)

\* len(bands) == 4 and all(band in bands for band in ['G', 'NIR', 'R', 'RE'])
IsCompleteCapture(bands) ==
    /\ Cardinality(DOMAIN bands) = 4
    /\ \A j \in 1..Len(RequiredBands) : RequiredBands[j] \in DOMAIN bands

\* A file list in the band order G, R, RE, NIR.
CompleteCaptureFilesOtherOrder(capture_groups) ==
    Flatten([i \in 1..Len(capture_groups) |->
                IF Cardinality(DOMAIN capture_groups[i].bands) = 4
                   /\ \A b \in {<<"G">>, <<"R">>, <<"R", "E">>, <<"N", "I", "R">>} :
                          b \in DOMAIN capture_groups[i].bands
                THEN <<capture_groups[i].bands[<<"G">>], capture_groups[i].bands[<<"R">>],
                       capture_groups[i].bands[<<"R", "E">>], capture_groups[i].bands[<<"N", "I", "R">>]>>
                ELSE <<>>])

\* A file list that keeps the files a capture has, complete or not.
CompleteCaptureFilesKeepsPartial(capture_groups) ==
    Flatten([i \in 1..Len(capture_groups) |->
                LET present == SelectSeq(RequiredBands,
                                   LAMBDA b : b \in DOMAIN capture_groups[i].bands)
                IN  [j \in 1..Len(present) |-> capture_groups[i].bands[present[j]]]])

\* all_ms_files: the files of the complete captures, G, NIR, R, RE each.
CompleteCaptureFiles(capture_groups) ==
    Flatten([i \in 1..Len(capture_groups) |->
                IF IsCompleteCapture(capture_groups[i].bands)
                THEN [j \in 1..Len(RequiredBands) |->
                         capture_groups[i].bands[RequiredBands[j]]]
                ELSE <<>>])

\* What a folder whose name matched appends to route_folders.
MsSingleRecord(folder, folder_path, route_number, ms_files, grouped, complete_captures) ==
    IF complete_captures > 0
    THEN <<[folder_name |-> folder, folder_path |-> folder_path,
            route_number |-> route_number,
            ms_captures |-> complete_captures,
            ms_files_count |-> Len(ms_files),
            band_counts |-> grouped.band_counts,
            image_files |-> CompleteCaptureFiles(grouped.capture_groups),
            complete_sets |-> complete_captures]>>
    ELSE <<>>

CountComplete(capture_groups) ==
    Cardinality({i \in 1..Len(capture_groups) :
                    IsCompleteCapture(capture_groups[i].bands)})

MsSingleGrouped(folder, folder_path, route_number, ms_files, grouped) ==
    MsSingleRecord(folder, folder_path, route_number, ms_files, grouped,
                   CountComplete(grouped.capture_groups))

MsSingleEntry(nt, dcim_path, folder, route_number, files) ==
    MsSingleGrouped(folder, dcim_path \o <<folder>>, route_number,
                    AllMsFiles(nt, dcim_path \o <<folder>>, files),
                    GroupCaptures(AllMsFiles(nt, dcim_path \o <<folder>>, files), <<>>,
                                  [b \in {RequiredBands[k] : k \in 1..Len(RequiredBands)}
                                      |-> 0]))

\* The value of the variable `pattern`: the route regular expression, or,
\* once `for pattern in ms_patterns` has run, the last glob path of the
\* folder matched before.
RoutePattern == [kind |-> "route_regex", path |-> <<>>]
GlobPathPattern(folder_path) ==
    [kind |-> "glob_path", path |-> folder_path \o <<<<"*", "_", "M", "S", "_", "*", ".", "t", "i", "f">>>>]

\* re.match(pattern, folder). A glob path holds a path separator before the
\* folder name it was built from, which no directory name holds: as a
\* regular expression it matches no folder (or fails to compile).
ReMatchPattern(pattern, folder) ==
    IF pattern.kind = "route_regex" THEN ReMatchRoute(folder)
    ELSE [matched |-> FALSE, route_number |-> <<>>]

\* The for-loop of ms_single scan_dcim_folders_ms.
RECURSIVE MsSingleLoop(_, _, _, _, _)
MsSingleLoop(nt, dcim_path, listing, pattern, route_folders) ==
    IF listing = <<>> THEN route_folders
    ELSE LET e == Head(listing)
             match == ReMatchPattern(pattern, e.name)
         IN  IF e.isdir /\ match.matched
             THEN MsSingleLoop(nt, dcim_path, Tail(listing),
                               GlobPathPattern(dcim_path \o <<e.name>>),
                               route_folders
                                   \o MsSingleEntry(nt, dcim_path, e.name,
                                                    match.route_number, e.files))
             ELSE MsSingleLoop(nt, dcim_path, Tail(listing), pattern, route_folders)

scan_dcim_folders_ms(nt, exists, dcim_path, listing) ==
    IF ~exists THEN <<>>
    ELSE SortedByRoute(MsSingleLoop(nt, dcim_path, listing, RoutePattern, <<>>))

(***************************************************************************)
(* The directory walk of rgb_ms_single                                     *)
(***************************************************************************)
\* os.walk(base_path) over a DCIM folder whose route folders hold files only:
\* the (root, dirs, files) triples, top down.
WalkRoots(exists, base_path, listing) ==
    LET subdirs == SelectSeq(listing, LAMBDA e : e.isdir)
        plain == SelectSeq(listing, LAMBDA e : ~e.isdir)
    IN  IF ~exists THEN <<>>
        ELSE <<[root |-> base_path,
                dirs |-> [i \in 1..Len(subdirs) |-> subdirs[i].name],
                files |-> [i \in 1..Len(plain) |-> plain[i].name]]>>
             \o [i \in 1..Len(subdirs) |->
                    [root |-> base_path \o <<subdirs[i].name>>,
                     dirs |-> <<>>,
                     files |-> subdirs[i].files]]

\* The loop over path_parts: the first part that is a route folder name or
\* starts with route_<digits> gives the route number.
RECURSIVE RouteOfParts(_)
RouteOfParts(path_parts) ==
    IF path_parts = <<>> THEN [matched |-> FALSE, route_number |-> <<>>]
    ELSE IF ReMatchRoute(Head(path_parts)).matched
         THEN ReMatchRoute(Head(path_parts))
    ELSE IF ReMatchRoutePrefix(Head(path_parts)).matched
         THEN ReMatchRoutePrefix(Head(path_parts))
    ELSE RouteOfParts(Tail(path_parts))

\* 'DCIM' in root or any('DJI_' in d for d in dirs)
WalkRootExamined(w) ==
    \/ \E i \in 1..Len(w.root) : Contains(w.root[i], <<"D", "C", "I", "M">>)
    \/ \E i \in 1..Len(w.dirs) : Contains(w.dirs[i], <<"D", "J", "I", "_">>)

\* The body of the walk loop: dcim_folders as the sequence of its items in
\* insertion order.
RECURSIVE CombinedWalkLoop(_, _)
CombinedWalkLoop(roots, dcim_folders) ==
    IF roots = <<>> THEN dcim_folders
    ELSE LET w == Head(roots)
             route_match == RouteOfParts(w.root)
             route_number == route_match.route_number
             known == {i \in 1..Len(dcim_folders) :
                          dcim_folders[i].route_number = route_number}
             opened == IF known = {}
                       THEN Append(dcim_folders,
                                   [route_number |-> route_number,
                                    rgb_images |-> <<>>, ms_images |-> <<>>,
                                    dcim_path |-> w.root])
                       ELSE dcim_folders
             extended ==
                 [i \in 1..Len(opened) |->
                     IF opened[i].route_number = route_number
                     THEN [opened[i] EXCEPT
                              !.rgb_images = @ \o NamedRgbImages(w.root, w.files),
                              !.ms_images = @ \o NamedMsImages(w.root, w.files)]
                     ELSE opened[i]]
         IN  IF WalkRootExamined(w) /\ route_match.matched
             THEN CombinedWalkLoop(Tail(roots), extended)
             ELSE CombinedWalkLoop(Tail(roots), dcim_folders)

scan_dcim_folders_combined(exists, base_path, listing) ==
    CombinedWalkLoop(WalkRoots(exists, base_path, listing), <<>>)

(***************************************************************************)
(* The output directory                                                    *)
(***************************************************************************)
output_base == "OUT"

OsPathExists(fs, p) == p \in DOMAIN fs

\* os.listdir(p): the entries of a directory; raises on a plain file.
OsListdirRaises(fs, p) == ~fs[p].isdir
OsListdir(fs, p) == fs[p].entries

EmptyDir == [isdir |-> TRUE, entries |-> {}]
PlainFile == [isdir |-> FALSE, entries |-> {}]
UsedDir == [isdir |-> TRUE, entries |-> {<<"old.psx">>}]

\* os.makedirs(p, exist_ok=True): creates p when absent; an existing
\* directory is left as it is.
OsMakedirs(fs, p) ==
    IF p \in DOMAIN fs THEN fs
    ELSE [q \in DOMAIN fs \cup {p} |-> IF q = p THEN EmptyDir ELSE fs[q]]

\* Adds the entry `name` to the directory p (a file or a subfolder written
\* into it).
AddEntry(fs, p, name) ==
    [fs EXCEPT ![p] = [isdir |-> TRUE, entries |-> fs[p].entries \cup {name}]]

(***************************************************************************)
(* Project path versioners                                                 *)
(***************************************************************************)
\* VersionLoop with the os.listdir test dropped: any existing folder is taken.
VersionLoopIgnoresContents(fs, base, project_folder, version) ==
    [raised |-> FALSE, version |-> version, project_folder |-> project_folder,
     project_file |-> base \o <<".psx">>]

\* VersionLoop that bumps the folder name and leaves the file name at its
\* base value.
RECURSIVE VersionLoopStaleFile(_, _, _, _)
VersionLoopStaleFile(fs, base, project_folder, version) ==
    LET project_path == OsPathJoin(output_base, project_folder)
        here == [raised |-> FALSE, version |-> version,
                 project_folder |-> project_folder,
                 project_file |-> base \o <<".psx">>]
    IN  IF OsPathExists(fs, project_path)
        THEN IF OsListdirRaises(fs, project_path)
             THEN [here EXCEPT !.raised = TRUE]
             ELSE IF OsListdir(fs, project_path) # {}
                  THEN VersionLoopStaleFile(fs, base,
                                            base \o <<"_v", Str(version + 1)>>,
                                            version + 1)
                  ELSE here
        ELSE here

\* The while-loop shared, line for line, by create_project_structure (RGB),
\* create_project_structure_ms and the three create_combined_project_structure:
\* base is base_project_folder, whose tokens also start the project file name.
\* The result is [raised, version, project_folder, project_file]; raised is
\* os.listdir failing on a path that exists and is no directory.
RECURSIVE VersionLoop(_, _, _, _)
VersionLoop(fs, base, project_folder, version) ==
    LET project_path == OsPathJoin(output_base, project_folder)
        project_file == IF version = 1 THEN base \o <<".psx">>
                        ELSE base \o <<"_v", Str(version), ".psx">>
        here == [raised |-> FALSE, version |-> version,
                 project_folder |-> project_folder,
                 project_file |-> project_file]
    IN  IF OsPathExists(fs, project_path)
        THEN IF OsListdirRaises(fs, project_path)
             THEN [here EXCEPT !.raised = TRUE]
             ELSE IF OsListdir(fs, project_path) # {}
                  THEN VersionLoop(fs, base,
                                   base \o <<"_v", Str(version + 1)>>,
                                   version + 1)
                  ELSE here
        ELSE here

\* What a versioner call leaves behind: the returned pair and the new
\* directory state.
VersionerResult(fs, base) ==
    LET r == VersionLoop(fs, base, base, 1)
        project_path == OsPathJoin(output_base, r.project_folder)
    IN  IF r.raised
        THEN [raised |-> TRUE, version |-> r.version, ret |-> <<>>, fs |-> fs]
        ELSE [raised |-> FALSE, version |-> r.version,
              ret |-> <<project_path, OsPathJoin(project_path, r.project_file)>>,
              fs |-> OsMakedirs(fs, project_path)]

create_project_structure(fs, route_number) ==
    VersionerResult(fs, <<"route_", route_number, "_RGB">>)

create_project_structure_ms(fs, route_number) ==
    VersionerResult(fs, <<"route_", route_number, "_MS">>)

create_combined_project_structure_rgb(fs, route_numbers) ==
    VersionerResult(fs, <<"combined_routes_">> \o JoinUnderscore(route_numbers)
                        \o <<"_RGB">>)

create_combined_project_structure_ms(fs, route_numbers) ==
    VersionerResult(fs, <<"combined_routes_">> \o JoinUnderscore(route_numbers)
                        \o <<"_MS">>)

create_combined_project_structure_rgb_ms(fs, route_numbers) ==
    VersionerResult(fs, <<"combined_routes_">> \o JoinUnderscore(route_numbers)
                        \o <<"_RGB_MS">>)

\* rgb_ms_single: the loop leaves only at a path that does not exist, then
\* the folder and its four product subfolders are created.
RECURSIVE CombinedVersionLoop(_, _, _)
CombinedVersionLoop(fs, base_project_name, version) ==
    LET project_folder_name ==
            IF version = 1 THEN base_project_name
            ELSE base_project_name \o <<"_v", Str(version)>>
        project_folder == OsPathJoin(output_base, project_folder_name)
    IN  IF ~OsPathExists(fs, project_folder)
        THEN [version |-> version, project_folder |-> project_folder,
              project_folder_name |-> project_folder_name]
        ELSE CombinedVersionLoop(fs, base_project_name, version + 1)

subfolders == <<"orthomosaic", "dem", "pointcloud", "report">>

create_project_structure_combined(fs, route_name) ==
    LET r == CombinedVersionLoop(fs, <<"route_", route_name, "_Combined">>, 1)
        made == OsMakedirs(fs, r.project_folder)
        filled == [made EXCEPT ![r.project_folder] =
                      [isdir |-> TRUE,
                       entries |-> {<<subfolders[i]>> : i \in 1..Len(subfolders)}]]
    IN  [raised |-> FALSE, version |-> r.version,
         ret |-> <<r.project_folder, r.project_folder_name>>,
         fs |-> filled]

(***************************************************************************)
(* DCIM folders the scanners are run on                                    *)
(***************************************************************************)
\* A directory entry of the DCIM folder: a route folder with its files in
\* listing order, or a plain file.
Dir(name, files) == [name |-> name, isdir |-> TRUE, files |-> files]
FileEntry(name) == [name |-> name, isdir |-> FALSE, files |-> <<>>]

\* DJI_202401010800_001_x, DJI_202401010800_002_x, DJI_20240101080000_003_y:
\* names of the route grammar.
Folder001 == <<"D", "J", "I", "_", "2", "0", "2", "4", "0", "1", "0", "1", "0", "8", "0", "0", "_", "0", "0", "1", "_", "x">>
Folder002 == <<"D", "J", "I", "_", "2", "0", "2", "4", "0", "1", "0", "1", "0", "8", "0", "0", "_", "0", "0", "2", "_", "x">>
Folder003 == <<"D", "J", "I", "_", "2", "0", "2", "4", "0", "1", "0", "1", "0", "8", "0", "0", "0", "0", "_", "0", "0", "3", "_", "y">>
\* DJI_202401020900_001_y: route 001 again, flown a day later.
Folder001Later == <<"D", "J", "I", "_", "2", "0", "2", "4", "0", "1", "0", "2", "0", "9", "0", "0", "_", "0", "0", "1", "_", "y">>
\* DJI_20240101_004_x (a timestamp of 8 digits) and route_7: outside it.
FolderShort == <<"D", "J", "I", "_", "2", "0", "2", "4", "0", "1", "0", "1", "_", "0", "0", "4", "_", "x">>
FolderRoute7 == <<"r", "o", "u", "t", "e", "_", "7">>
\* DJI_202401010800_009_f, used as the name of a plain file.
File009 == <<"D", "J", "I", "_", "2", "0", "2", "4", "0", "1", "0", "1", "0", "8", "0", "0", "_", "0", "0", "9", "_", "f">>

FolderNames == {Folder001, Folder003, FolderShort, FolderRoute7}

\* Files a route folder may hold in the RGB study, in listing order.
RgbFileCorpus ==
    <<<<"D", "J", "I", "_", "0", "0", "0", "1", "_", "D", ".", "J", "P", "G">>,
      <<"I", "M", "G", "_", "2", "D", ".", "J", "P", "G">>,
      <<"P", "I", "C", "_", "3", ".", "J", "P", "G">>,
      <<"p", "i", "c", "_", "4", ".", "j", "p", "g">>,
      <<".", "D", "J", "I", "_", "5", "_", "D", ".", "J", "P", "G">>,
      <<"D", "J", "I", "_", "2", "0", "2", "4", "0", "1", "0", "1", "0", "8", "0", "0", "0", "0", "_", "0", "0", "0", "7", "_", "M", "S", "_", "G", ".", "T", "I", "F">>>>

\* Ten files matching *_D.JPG.
TenD ==
    <<<<"D", "J", "I", "_", "0", "0", "0", "1", "_", "D", ".", "J", "P", "G">>,
      <<"D", "J", "I", "_", "0", "0", "0", "2", "_", "D", ".", "J", "P", "G">>,
      <<"D", "J", "I", "_", "0", "0", "0", "3", "_", "D", ".", "J", "P", "G">>,
      <<"D", "J", "I", "_", "0", "0", "0", "4", "_", "D", ".", "J", "P", "G">>,
      <<"D", "J", "I", "_", "0", "0", "0", "5", "_", "D", ".", "J", "P", "G">>,
      <<"D", "J", "I", "_", "0", "0", "0", "6", "_", "D", ".", "J", "P", "G">>,
      <<"D", "J", "I", "_", "0", "0", "0", "7", "_", "D", ".", "J", "P", "G">>,
      <<"D", "J", "I", "_", "0", "0", "0", "8", "_", "D", ".", "J", "P", "G">>,
      <<"D", "J", "I", "_", "0", "0", "0", "9", "_", "D", ".", "J", "P", "G">>,
      <<"D", "J", "I", "_", "0", "0", "1", "0", "_", "D", ".", "J", "P", "G">>>>

\* One file that only *.JPG and *.jpg select.
OneJpg == <<<<"P", "I", "C", "_", "3", ".", "J", "P", "G">>>>

\* The dcim_path arguments: data/DCIM and flights.
DcimPaths == {<<<<"d", "a", "t", "a">>, <<"D", "C", "I", "M">>>>, <<<<"f", "l", "i", "g", "h", "t", "s">>>>}

\* Most entries a DCIM listing holds with canned contents.
MaxFolders == 2

\* The listings of at most n entries of E with distinct names.
ListingsOf(E, n) ==
    {l \in UNION {[1..k -> E] : k \in 0..n} :
        \A i, j \in 1..Len(l) : i # j => l[i].name # l[j].name}

\* One route folder with any selection of the corpus.
RgbFolderStudy ==
    {<<Dir(n, c)>> : n \in FolderNames, c \in SubSeqsOf(RgbFileCorpus)}

\* Several entries, each empty, holding the ten *_D.JPG files, or holding
\* the one plain JPG.
RgbListingStudy ==
    ListingsOf({Dir(n, c) : n \in {Folder001, Folder002, FolderRoute7},
                            c \in {<<>>, TenD, OneJpg}}
                   \cup {Dir(Folder001Later, TenD), FileEntry(File009)},
               MaxFolders)

\* Files a route folder may hold in the multispectral study: capture 0001 with
\* its four bands, capture 0002 with G, NIR and R, a fifth band B for capture
\* 0001, and a lower-case name.
MsFileCorpus ==
    <<<<"D", "J", "I", "_", "2", "0", "2", "4", "0", "1", "0", "1", "0", "8", "0", "0", "0", "0", "_", "0", "0", "0", "1", "_", "M", "S", "_", "G", ".", "T", "I", "F">>,
      <<"D", "J", "I", "_", "2", "0", "2", "4", "0", "1", "0", "1", "0", "8", "0", "0", "0", "0", "_", "0", "0", "0", "1", "_", "M", "S", "_", "N", "I", "R", ".", "T", "I", "F">>,
      <<"D", "J", "I", "_", "2", "0", "2", "4", "0", "1", "0", "1", "0", "8", "0", "0", "0", "0", "_", "0", "0", "0", "1", "_", "M", "S", "_", "R", ".", "T", "I", "F">>,
      <<"D", "J", "I", "_", "2", "0", "2", "4", "0", "1", "0", "1", "0", "8", "0", "0", "0", "0", "_", "0", "0", "0", "1", "_", "M", "S", "_", "R", "E", ".", "T", "I", "F">>,
      <<"D", "J", "I", "_", "2", "0", "2", "4", "0", "1", "0", "1", "0", "8", "0", "0", "0", "0", "_", "0", "0", "0", "2", "_", "M", "S", "_", "G", ".", "T", "I", "F">>,
      <<"D", "J", "I", "_", "2", "0", "2", "4", "0", "1", "0", "1", "0", "8", "0", "0", "0", "0", "_", "0", "0", "0", "2", "_", "M", "S", "_", "N", "I", "R", ".", "T", "I", "F">>,
      <<"D", "J", "I", "_", "2", "0", "2", "4", "0", "1", "0", "1", "0", "8", "0", "0", "0", "0", "_", "0", "0", "0", "2", "_", "M", "S", "_", "R", ".", "T", "I", "F">>,
      <<"D", "J", "I", "_", "2", "0", "2", "4", "0", "1", "0", "1", "0", "8", "0", "0", "0", "0", "_", "0", "0", "0", "1", "_", "M", "S", "_", "B", ".", "T", "I", "F">>,
      <<"d", "j", "i", "_", "2", "0", "2", "4", "0", "1", "0", "1", "0", "8", "0", "0", "0", "0", "_", "0", "0", "0", "3", "_", "m", "s", "_", "g", ".", "t", "i", "f">>>>

\* Eight files: two complete captures of four bands.
EightTif ==
    <<<<"D", "J", "I", "_", "2", "0", "2", "4", "0", "1", "0", "1", "0", "8", "0", "0", "0", "0", "_", "0", "0", "0", "1", "_", "M", "S", "_", "G", ".", "T", "I", "F">>,
      <<"D", "J", "I", "_", "2", "0", "2", "4", "0", "1", "0", "1", "0", "8", "0", "0", "0", "0", "_", "0", "0", "0", "1", "_", "M", "S", "_", "N", "I", "R", ".", "T", "I", "F">>,
      <<"D", "J", "I", "_", "2", "0", "2", "4", "0", "1", "0", "1", "0", "8", "0", "0", "0", "0", "_", "0", "0", "0", "1", "_", "M", "S", "_", "R", ".", "T", "I", "F">>,
      <<"D", "J", "I", "_", "2", "0", "2", "4", "0", "1", "0", "1", "0", "8", "0", "0", "0", "0", "_", "0", "0", "0", "1", "_", "M", "S", "_", "R", "E", ".", "T", "I", "F">>,
      <<"D", "J", "I", "_", "2", "0", "2", "4", "0", "1", "0", "1", "0", "8", "0", "0", "0", "0", "_", "0", "0", "0", "2", "_", "M", "S", "_", "G", ".", "T", "I", "F">>,
      <<"D", "J", "I", "_", "2", "0", "2", "4", "0", "1", "0", "1", "0", "8", "0", "0", "0", "0", "_", "0", "0", "0", "2", "_", "M", "S", "_", "N", "I", "R", ".", "T", "I", "F">>,
      <<"D", "J", "I", "_", "2", "0", "2", "4", "0", "1", "0", "1", "0", "8", "0", "0", "0", "0", "_", "0", "0", "0", "2", "_", "M", "S", "_", "R", ".", "T", "I", "F">>,
      <<"D", "J", "I", "_", "2", "0", "2", "4", "0", "1", "0", "1", "0", "8", "0", "0", "0", "0", "_", "0", "0", "0", "2", "_", "M", "S", "_", "R", "E", ".", "T", "I", "F">>>>

MsFolderStudy == {<<Dir(Folder001, c)>> : c \in SubSeqsOf(MsFileCorpus)}

MsListingStudy ==
    ListingsOf({Dir(n, c) : n \in {Folder001, Folder002, FolderShort},
                            c \in {<<>>, EightTif}}
                   \cup {FileEntry(File009)},
               MaxFolders)

(***************************************************************************)
(* Scans                                                                   *)
(***************************************************************************)
NoScan == [fn |-> "none", arg |-> "", result |-> <<>>]

ProcessingTypes == {"RGB", "MS", "Combined"}

\* A scanner ran and its result is kept.
RunScan(fn, arg, result) ==
    /\ scan' = [fn |-> fn, arg |-> arg, result |-> result]
    /\ UNCHANGED <<script, ntpath, dcimExists, dcimPath, dcim, outDir, calls, touched>>
    /\ UNCHANGED pipeVars

ScanDcimFolders ==
    /\ script = "rgb_single"
    /\ RunScan("scan_dcim_folders", "",
               scan_dcim_folders_rgb_single(ntpath, dcimExists, dcimPath, dcim))

ScanDcimFoldersRgbCombined ==
    /\ script = "rgb_combined"
    /\ RunScan("scan_dcim_folders", "",
               scan_dcim_folders_rgb_combined(ntpath, dcimExists, dcimPath, dcim))

ScanDcimFoldersRgbMsCombined ==
    /\ script = "rgb_ms_combined"
    /\ RunScan("scan_dcim_folders_combined", "",
               scan_dcim_folders_rgb_ms_combined(ntpath, dcimExists, dcimPath, dcim))

ScanDcimFoldersCombined ==
    /\ script = "rgb_ms_single"
    /\ RunScan("scan_dcim_folders_combined", "",
               scan_dcim_folders_combined(dcimExists, dcimPath, dcim))

ScanDcimFoldersMs ==
    /\ script = "ms_single"
    /\ RunScan("scan_dcim_folders_ms", "",
               scan_dcim_folders_ms(ntpath, dcimExists, dcimPath, dcim))

ScanDcimFoldersMsCombined ==
    /\ script = "ms_combined"
    /\ RunScan("scan_dcim_folders_ms", "",
               scan_dcim_folders_ms_combined(ntpath, dcimExists, dcimPath, dcim))

ConfigToolScan ==
    /\ script = "config_tool"
    /\ dcimExists
    /\ \E processing_type \in ProcessingTypes :
          RunScan("scan_dcim_folders", processing_type,
                  scan_dcim_folders_config_tool(ntpath, dcimExists, dcimPath,
                                                processing_type, dcim))

ConfigToolFindRgbFiles ==
    /\ script = "config_tool"
    /\ \E i \in 1..Len(dcim) :
          /\ dcim[i].isdir
          /\ RunScan("find_rgb_files", dcim[i].name,
                     find_rgb_files(ntpath, dcimPath \o <<dcim[i].name>>, dcim[i].files))

ScanScripts ==
    {"rgb_single", "rgb_combined", "rgb_ms_combined", "rgb_ms_single",
     "ms_single", "ms_combined", "config_tool"}

VersionerIdle == outDir = <<>> /\ calls = <<>> /\ touched = FALSE

\* No configuration tool is open.
NoGui == [last_event |-> "none", events |-> 0]

NoChunk ==
    [cameras |-> 0, aligned |-> 0, markers |-> "none", merged |-> FALSE,
     projections |-> 0]

\* The module globals of a multi-route script as the file is loaded: no
\* path (None and the empty string are one falsy value here), no route.
NoConfig ==
    [dcim_base_path |-> "", gcp_base_path |-> "", output_base_path |-> "",
     routes_to_combine |-> <<>>]

\* No entry point called yet.
NoRun ==
    [entry |-> "none", passed |-> {}, route_numbers |-> <<>>, dcim_path |-> "",
     gcp_path |-> "", output_path |-> "", error |-> "none"]

PipelineIdle ==
    /\ config = NoConfig
    /\ run = NoRun
    /\ lookups = <<>>
    /\ batch = <<>>
    /\ idx = 0
    /\ attempts = <<>>
    /\ successful = 0
    /\ failed = 0
    /\ returned = "no"
    /\ pc = 0
    /\ ops = <<>>
    /\ chunk = NoChunk
    /\ project = <<>>
    /\ outcome = "none"

ScanIdle ==
    /\ ntpath = FALSE
    /\ dcimExists = FALSE
    /\ dcimPath = <<>>
    /\ dcim = <<>>
    /\ scan = NoScan

ScanInit ==
    /\ script \in ScanScripts
    /\ ntpath \in BOOLEAN
    /\ dcimPath \in DcimPaths
    /\ \/ dcimExists = TRUE /\ dcim \in RgbFolderStudy \cup RgbListingStudy
       \/ dcimExists = FALSE /\ dcim = <<>>
    /\ scan = NoScan
    /\ VersionerIdle
    /\ PipelineIdle
    /\ gui = NoGui

ScanNext ==
    \/ ScanDcimFolders
    \/ ScanDcimFoldersRgbCombined
    \/ ScanDcimFoldersRgbMsCombined
    \/ ScanDcimFoldersCombined
    \/ ScanDcimFoldersMs
    \/ ScanDcimFoldersMsCombined
    \/ ConfigToolScan
    \/ ConfigToolFindRgbFiles

SpecScan == ScanInit /\ [][ScanNext]_vars

MsInit ==
    /\ script \in {"ms_single", "ms_combined"}
    /\ ntpath \in BOOLEAN
    /\ dcimPath \in DcimPaths
    /\ \/ dcimExists = TRUE /\ dcim \in MsFolderStudy \cup MsListingStudy
       \/ dcimExists = FALSE /\ dcim = <<>>
    /\ scan = NoScan
    /\ VersionerIdle
    /\ PipelineIdle
    /\ gui = NoGui

MsNext ==
    \/ ScanDcimFoldersMs
    \/ ScanDcimFoldersMsCombined

SpecMs == MsInit /\ [][MsNext]_vars

(***************************************************************************)
(* Versioner runs: one script is loaded, its versioner is called, and the  *)
(* pipeline saves the project file into the folder it was given.           *)
(***************************************************************************)
VersionerScripts ==
    {"rgb_single", "ms_single", "rgb_ms_single",
     "rgb_combined", "ms_combined", "rgb_ms_combined"}

\* Arguments the calls are made with.
Routes == {"005"}
RouteLists == {<<"001", "002">>}

\* base_project_folder of each script for the arguments above.
BaseFolders(s) ==
    CASE s = "rgb_single" -> {<<"route_", r, "_RGB">> : r \in Routes}
      [] s = "ms_single" -> {<<"route_", r, "_MS">> : r \in Routes}
      [] s = "rgb_ms_single" -> {<<"route_", r, "_Combined">> : r \in Routes}
      [] s = "rgb_combined" ->
            {<<"combined_routes_">> \o JoinUnderscore(l) \o <<"_RGB">> : l \in RouteLists}
      [] s = "ms_combined" ->
            {<<"combined_routes_">> \o JoinUnderscore(l) \o <<"_MS">> : l \in RouteLists}
      [] s = "rgb_ms_combined" ->
            {<<"combined_routes_">> \o JoinUnderscore(l) \o <<"_RGB_MS">> : l \in RouteLists}

\* The folder name of version v of a project name: version 1 is unsuffixed.
FolderOfVersion(base, v) == IF v = 1 THEN base ELSE base \o <<"_v", Str(v)>>

\* Directory states before the first call: each version folder up to
\* MaxVersion is absent, an empty folder, a folder with contents, or a file.
InitialOutDirs(s) ==
    LET paths == {OsPathJoin(output_base, FolderOfVersion(b, v)) :
                     b \in BaseFolders(s), v \in 1..MaxVersion}
    IN  UNION {[present -> {EmptyDir, UsedDir, PlainFile}] : present \in SUBSET paths}

\* "absent", "file", "empty" or "nonempty": what a path is in a directory state.
PathState(fs, p) ==
    IF p \notin DOMAIN fs THEN "absent"
    ELSE IF ~fs[p].isdir THEN "file"
    ELSE IF fs[p].entries = {} THEN "empty"
    ELSE "nonempty"

Remember(history, c) ==
    IF Len(history) < 2 THEN Append(history, c) ELSE <<history[2], c>>

\* One call of a versioner: r is what the function computed on outDir.
VersionerCall(fn, arg, r) ==
    /\ r.version <= VersionCap
    /\ outDir' = r.fs
    /\ calls' = Remember(calls, [fn |-> fn, arg |-> arg, raised |-> r.raised,
                                 ret |-> r.ret, before |-> outDir,
                                 quiet |-> ~touched])
    /\ touched' = FALSE
    /\ UNCHANGED <<script, ntpath, dcimExists, dcimPath, dcim, scan>>
    /\ UNCHANGED pipeVars

CallCreateProjectStructure ==
    /\ script = "rgb_single"
    /\ \E rn \in Routes :
          VersionerCall("create_project_structure", rn,
                        create_project_structure(outDir, rn))

CallCreateProjectStructureMs ==
    /\ script = "ms_single"
    /\ \E rn \in Routes :
          VersionerCall("create_project_structure_ms", rn,
                        create_project_structure_ms(outDir, rn))

CallCreateProjectStructureCombined ==
    /\ script = "rgb_ms_single"
    /\ \E rn \in Routes :
          VersionerCall("create_project_structure", rn,
                        create_project_structure_combined(outDir, rn))

CallCreateCombinedRgb ==
    /\ script = "rgb_combined"
    /\ \E l \in RouteLists :
          VersionerCall("create_combined_project_structure", l,
                        create_combined_project_structure_rgb(outDir, l))

CallCreateCombinedMs ==
    /\ script = "ms_combined"
    /\ \E l \in RouteLists :
          VersionerCall("create_combined_project_structure", l,
                        create_combined_project_structure_ms(outDir, l))

CallCreateCombinedRgbMs ==
    /\ script = "rgb_ms_combined"
    /\ \E l \in RouteLists :
          VersionerCall("create_combined_project_structure", l,
                        create_combined_project_structure_rgb_ms(outDir, l))

\* The name of the project file the pipeline saves after the versioner
\* returned: the returned file, or route_<n>_combined.psx in rgb_ms_single.
SavedFileName(c) ==
    IF script = "rgb_ms_single" THEN <<"route_", c.arg, "_combined.psx">>
    ELSE c.ret[2][2]

\* doc.save(project_full_path): the project file appears in the folder.
SaveProject ==
    /\ calls # <<>>
    /\ ~Last(calls).raised
    /\ SavedFileName(Last(calls)) \notin outDir[Last(calls).ret[1]].entries
    /\ outDir' = AddEntry(outDir, Last(calls).ret[1], SavedFileName(Last(calls)))
    /\ touched' = TRUE
    /\ UNCHANGED <<script, calls, ntpath, dcimExists, dcimPath, dcim, scan>>
    /\ UNCHANGED pipeVars

VersionerInit ==
    /\ script \in VersionerScripts
    /\ outDir \in InitialOutDirs(script)
    /\ calls = <<>>
    /\ touched = FALSE
    /\ ScanIdle
    /\ PipelineIdle
    /\ gui = NoGui

VersionerNext ==
    \/ CallCreateProjectStructure
    \/ CallCreateProjectStructureMs
    \/ CallCreateProjectStructureCombined
    \/ CallCreateCombinedRgb
    \/ CallCreateCombinedMs
    \/ CallCreateCombinedRgbMs
    \/ SaveProject

SpecVersioner == VersionerInit /\ [][VersionerNext]_vars

(***************************************************************************)
(* Claims about the versioners                                             *)
(***************************************************************************)
CallIndexes == 1..Len(calls)

\* The path of version v of project name b under the output base.
VersionPath(b, v) == OsPathJoin(output_base, FolderOfVersion(b, v))

\* C1: the folder a versioner returns was, when the call was made, absent or
\* an existing empty folder; it never returns a folder that had contents.
C1_ReturnedFolderWasFree ==
    \A i \in CallIndexes :
        ~calls[i].raised =>
            PathState(calls[i].before, calls[i].ret[1]) \in {"absent", "empty"}

\* A call that found the unsuffixed folder in use and returned a later folder.
C1_Witness ==
    \E i \in CallIndexes : \E b \in BaseFolders(script) :
        /\ ~calls[i].raised
        /\ PathState(calls[i].before, VersionPath(b, 1)) = "nonempty"
        /\ calls[i].ret[1] # VersionPath(b, 1)

\* Versions 1..k of project name b are folders with contents and version k+1
\* is absent in directory state fs.
UsedUpTo(fs, b, k) ==
    /\ \A v \in 1..k : PathState(fs, VersionPath(b, v)) = "nonempty"
    /\ PathState(fs, VersionPath(b, k + 1)) = "absent"

\* C2: with versions 1..k in use and version k+1 absent, the versioner returns
\* the folder suffixed _v(k+1) and, in the scripts whose versioner returns a
\* project file, the file with the same suffix; route 005 with only
\* route_005_RGB in use gives route_005_RGB_v2.
C2_NextVersionReturned ==
    \A i \in CallIndexes : \A b \in BaseFolders(script) : \A k \in 1..(VersionCap - 1) :
        UsedUpTo(calls[i].before, b, k) =>
            /\ ~calls[i].raised
            /\ calls[i].ret[1] = <<output_base, b \o <<"_v", Str(k + 1)>>>>
            /\ script # "rgb_ms_single" =>
                  calls[i].ret[2] = <<calls[i].ret[1], b \o <<"_v", Str(k + 1), ".psx">>>>
            /\ (script = "rgb_single" /\ calls[i].arg = "005" /\ k = 1) =>
                  calls[i].ret[1] = <<"OUT", <<"route_", "005", "_RGB", "_v", "2">>>>

\* route 005, only route_005_RGB existing with files: route_005_RGB_v2 came back.
C2_Witness ==
    \E i \in CallIndexes :
        /\ script = "rgb_single"
        /\ calls[i].arg = "005"
        /\ DOMAIN calls[i].before = {<<"OUT", <<"route_", "005", "_RGB">>>>}
        /\ UsedUpTo(calls[i].before, <<"route_", "005", "_RGB">>, 1)
        /\ calls[i].ret[1] = <<"OUT", <<"route_", "005", "_RGB", "_v", "2">>>>

\* C3: when the unsuffixed project folder exists and is empty, every versioner
\* returns that folder, without a version suffix.
C3_EmptyFolderReused ==
    \A i \in CallIndexes : \A b \in BaseFolders(script) :
        PathState(calls[i].before, VersionPath(b, 1)) = "empty" =>
            /\ ~calls[i].raised
            /\ calls[i].ret[1] = VersionPath(b, 1)

\* C4: two calls in a row with the same arguments, nothing but the versioner
\* writing in between, return the same pair.
C4_Idempotent ==
    (/\ Len(calls) = 2
     /\ calls[1].fn = calls[2].fn
     /\ calls[1].arg = calls[2].arg
     /\ calls[2].quiet)
        => /\ calls[1].raised = calls[2].raised
           /\ calls[1].ret = calls[2].ret

(***************************************************************************)
(* Claims about the scanners                                               *)
(***************************************************************************)
Scanned == scan.fn # "none"
ResultIndexes == 1..Len(scan.result)

\* The directory of the scanned DCIM folder with the given name.
DirNamed(name) == dcim[CHOOSE i \in 1..Len(dcim) : dcim[i].name = name]

\* The name of the directory a catalog entry stands for.
FolderNameOf(e) ==
    IF script = "rgb_ms_single" THEN Last(e.dcim_path) ELSE e.folder_name

\* The RGB files a catalog entry lists.
RgbFilesOf(e) ==
    IF script = "rgb_ms_combined" THEN e.rgb_files
    ELSE IF script = "rgb_ms_single" THEN e.rgb_images
    ELSE e.image_files

NamesOf(paths) == {Basename(paths[i]) : i \in 1..Len(paths)}

\* The three RGB tiers, most specific first.
RgbTiers == <<{<<"*", "_", "D", ".", "J", "P", "G">>}, {<<"*", "D", ".", "J", "P", "G">>}, {<<"*", ".", "J", "P", "G">>, <<"*", ".", "j", "p", "g">>}>>

\* The files of a folder that a glob of one of the patterns finds.
SelectedBy(files, pats) ==
    {files[i] : i \in {j \in 1..Len(files) :
                          /\ ~IsHidden(files[j])
                          /\ \E pat \in pats :
                                GlobMatch(Normcase(ntpath, pat),
                                          Normcase(ntpath, files[j]))}}

FirstNonEmptyTier(files) ==
    LET hit == {k \in 1..Len(RgbTiers) : SelectedBy(files, RgbTiers[k]) # {}}
    IN  IF hit = {} THEN {}
        ELSE SelectedBy(files, RgbTiers[CHOOSE k \in hit : \A l \in hit : k <= l])

\* DJI_<12 to 14 digits>_<3 digits>_ followed by anything.
MatchesRouteGrammar(name) ==
    \E n \in 12..14 :
        /\ Len(name) >= 9 + n
        /\ SubSeq(name, 1, 4) = <<"D", "J", "I", "_">>
        /\ \A i \in 5..(4 + n) : name[i] \in DigitSet
        /\ name[5 + n] = "_"
        /\ \A i \in (6 + n)..(8 + n) : name[i] \in DigitSet
        /\ name[9 + n] = "_"

\* C5: the RGB classifier (the single-route RGB scanner, the multi-route
\* RGB+MS scanner and the GUI tool's find_rgb_files) returns exactly the files
\* of the first non-empty tier among *_D.JPG, *D.JPG, *.JPG plus *.jpg: when a
\* more specific tier finds a file, no file of a later tier only is returned.
C5_FirstNonEmptyTierOnly ==
    /\ (script \in {"rgb_single", "rgb_ms_combined"} /\ Scanned) =>
          \A i \in ResultIndexes :
              NamesOf(RgbFilesOf(scan.result[i]))
                  = FirstNonEmptyTier(DirNamed(scan.result[i].folder_name).files)
    /\ scan.fn = "find_rgb_files" =>
          NamesOf(scan.result) = FirstNonEmptyTier(DirNamed(scan.arg).files)

\* The single-route RGB scanner cataloged a folder holding a *_D.JPG file
\* next to a JPG that only the generic tier finds.
C5_Witness ==
    /\ script = "rgb_single"
    /\ Scanned
    /\ \E i \in ResultIndexes :
          LET files == DirNamed(scan.result[i].folder_name).files
          IN  /\ SelectedBy(files, RgbTiers[1]) # {}
              /\ SelectedBy(files, RgbTiers[3]) \ SelectedBy(files, RgbTiers[1]) # {}

\* C6: every RGB route scanner (single-route RGB, multi-route RGB, multi-route
\* RGB+MS, single-route RGB+MS, the GUI tool) selects a folder's RGB images by
\* the three tiers in order, so all return the same file set for a folder.
C6_SameTiersInEveryScanner ==
    /\ (/\ script \in {"rgb_single", "rgb_combined", "rgb_ms_combined", "rgb_ms_single"}
        /\ Scanned) =>
          \A i \in ResultIndexes :
              NamesOf(RgbFilesOf(scan.result[i]))
                  = FirstNonEmptyTier(DirNamed(FolderNameOf(scan.result[i])).files)
    /\ (script = "config_tool" /\ scan.fn = "find_rgb_files") =>
          NamesOf(scan.result) = FirstNonEmptyTier(DirNamed(scan.arg).files)

\* C7: in every scanner variant, each catalog entry stands for a directory
\* whose name matches the route grammar DJI_<12-14 digits>_<3 digits>_*.
C7_OnlyGrammarFoldersCataloged ==
    (Scanned /\ scan.fn # "find_rgb_files") =>
        \A i \in ResultIndexes : MatchesRouteGrammar(FolderNameOf(scan.result[i]))

\* C8: the single-route RGB scanner leaves out a grammar-matching folder in
\* which no tier finds an image and catalogs each other grammar-matching
\* folder once, with its exact image count; folders 001 (ten *_D.JPG files)
\* and 002 (no images) give one entry, for route 001, with rgb_count 10.
C8_EmptyFolderLeftOutOthersCounted ==
    (script = "rgb_single" /\ Scanned /\ dcimExists) =>
        /\ \A j \in 1..Len(dcim) :
              (dcim[j].isdir /\ MatchesRouteGrammar(dcim[j].name)) =>
                  Cardinality({i \in ResultIndexes :
                                  scan.result[i].folder_name = dcim[j].name})
                      = IF FirstNonEmptyTier(dcim[j].files) = {} THEN 0 ELSE 1
        /\ \A i \in ResultIndexes :
              scan.result[i].rgb_count
                  = Cardinality(FirstNonEmptyTier(
                                    DirNamed(scan.result[i].folder_name).files))
        /\ dcim = <<Dir(Folder001, TenD), Dir(Folder002, <<>>)>> =>
              /\ Len(scan.result) = 1
              /\ scan.result[1].route_number = <<"0", "0", "1">>
              /\ scan.result[1].rgb_count = 10

(***************************************************************************)
(* Claims about the multispectral grouper                                  *)
(***************************************************************************)
RequiredBandSet == {RequiredBands[k] : k \in 1..Len(RequiredBands)}

\* The capture key a file name carries: timestamp, "_", sequence number.
KeyOf(filename) ==
    ReMatchMsFile(filename).timestamp \o <<"_">> \o ReMatchMsFile(filename).image_num

\* The multispectral files of a folder that the scanner's globs find.
MsNamesOf(files) ==
    SelectedBy(SelectSeq(files, LAMBDA f : ReMatchMsFile(f).matched),
               {<<"*", "_", "M", "S", "_", "*", ".", "T", "I", "F">>, <<"*", "_", "M", "S", "_", "*", ".", "t", "i", "f">>})

KeysOf(files) == {KeyOf(f) : f \in MsNamesOf(files)}

\* The bands for which a folder holds a file of the capture key.
BandsOfKey(files, key) ==
    {Upper(ReMatchMsFile(f).band) : f \in {g \in MsNamesOf(files) : KeyOf(g) = key}}

\* The capture keys with exactly 3 of the 4 required bands.
PartialKeys(files) ==
    {key \in KeysOf(files) :
        Cardinality(BandsOfKey(files, key) \cap RequiredBandSet) = 3}

\* The capture keys whose bands are the four required ones.
CompleteKeys(files) ==
    {key \in KeysOf(files) : BandsOfKey(files, key) = RequiredBandSet}

\* C9: scan_dcim_folders_ms returns one entry for every DCIM subfolder that
\* matches the route grammar and holds a complete four-band capture, however
\* many there are and in whatever order; a folder of 8 TIFFs forming 2
\* complete captures has complete_sets 2 and ms_files_count 8.
C9_EveryCompleteFolderCataloged ==
    (script = "ms_single" /\ Scanned /\ dcimExists) =>
        /\ \A j \in 1..Len(dcim) :
              (/\ dcim[j].isdir
               /\ MatchesRouteGrammar(dcim[j].name)
               /\ CompleteKeys(dcim[j].files) # {}) =>
                  Cardinality({i \in ResultIndexes :
                                  scan.result[i].folder_name = dcim[j].name}) = 1
        /\ \A i \in ResultIndexes :
              DirNamed(scan.result[i].folder_name).files = EightTif =>
                  /\ scan.result[i].complete_sets = 2
                  /\ scan.result[i].ms_files_count = 8

\* C10: a capture key with files of only 3 of the 4 required bands G, NIR, R,
\* RE is not counted in complete_sets and none of its files is in the
\* route's image_files.
C10_PartialCaptureDiscarded ==
    (script = "ms_single" /\ Scanned) =>
        \A i \in ResultIndexes :
            LET e == scan.result[i]
                files == DirNamed(e.folder_name).files
            IN  /\ \A j \in 1..Len(e.image_files) :
                      KeyOf(Basename(e.image_files[j])) \notin PartialKeys(files)
                /\ e.complete_sets <= Cardinality(KeysOf(files) \ PartialKeys(files))
                /\ e.complete_sets = e.ms_captures

\* A cataloged folder holding a complete capture next to a capture with 3 of
\* the 4 bands.
C10_Witness ==
    /\ script = "ms_single"
    /\ Scanned
    /\ \E i \in ResultIndexes :
          /\ PartialKeys(DirNamed(scan.result[i].folder_name).files) # {}
          /\ scan.result[i].complete_sets = 1
          /\ Len(scan.result[i].image_files) = 4

\* The band a file name carries, in upper case.
BandOfName(filename) == Upper(ReMatchMsFile(filename).band)

\* C11: in every entry of the multispectral grouper image_files is made of
\* consecutive groups of four files of one capture key, each group in the
\* band order G, NIR, R, RE, and len(image_files) = 4 * complete_sets.
C11_GroupsOfFourInBandOrder ==
    (script = "ms_single" /\ Scanned) =>
        \A i \in ResultIndexes :
            LET e == scan.result[i]
                name(j) == Basename(e.image_files[j])
            IN  /\ Len(e.image_files) = 4 * e.complete_sets
                /\ \A g \in 0..(e.complete_sets - 1) :
                      /\ \A j \in 1..4 : KeyOf(name(4 * g + j)) = KeyOf(name(4 * g + 1))
                      /\ <<BandOfName(name(4 * g + 1)), BandOfName(name(4 * g + 2)),
                           BandOfName(name(4 * g + 3)), BandOfName(name(4 * g + 4))>>
                             = <<<<"G">>, <<"N", "I", "R">>, <<"R">>, <<"R", "E">>>>

\* An entry with two complete captures and its eight files.
C11_Witness ==
    /\ script = "ms_single"
    /\ Scanned
    /\ \E i \in ResultIndexes :
          /\ scan.result[i].complete_sets = 2
          /\ Len(scan.result[i].image_files) = 8

\* The number a string of digits writes.
RECURSIVE ToNat(_)
ToNat(s) ==
    IF s = <<>> THEN 0 ELSE 10 * ToNat(SubSeq(s, 1, Len(s) - 1)) + (DigitValue[Last(s)] - 1)

\* C12: every route catalog a scanner returns (and so the order in which a
\* batch run takes its routes from it) is ascending by route number.
C12_CatalogAscending ==
    (Scanned /\ scan.fn # "find_rgb_files") =>
        \A i, j \in ResultIndexes :
            i < j => ToNat(scan.result[i].route_number)
                         <= ToNat(scan.result[j].route_number)

\* C13: within one scan result no two catalog entries have the same
\* route_number, also when several grammar-matching folders carry the same
\* 3-digit route id with different timestamps.
C13_RouteNumberUnique ==
    (Scanned /\ scan.fn # "find_rgb_files") =>
        \A i, j \in ResultIndexes :
            i # j => scan.result[i].route_number # scan.result[j].route_number

(***************************************************************************)
(* Pipelines: one script works through a batch of routes.  The route       *)
(* function of each script is the list of its statements that act on the   *)
(* engine or leave the function; a step executes the statement at pc.      *)
(***************************************************************************)
\* Most routes in one run.
MaxRoutes == 2

RouteNumberPool == <<"001", "002", "003", "004">>

SingleRouteScripts == {"rgb_single", "ms_single", "rgb_ms_single"}
MultiRouteScripts == {"rgb_combined", "ms_combined", "rgb_ms_combined"}

\* Images a cataloged route holds.  Only the catalog of rgb_ms_single keeps
\* a route whose folder has no image; the listing scanners leave it out.
ImageCounts(s) == IF s = "rgb_ms_single" THEN {0, 4} ELSE {4}

\* Catalogs of the routes 1..n: each with its images and with or without
\* its GCP file on disk.
RECURSIVE RouteCatalogs(_, _)
RouteCatalogs(s, n) ==
    IF n = 0 THEN {<<>>}
    ELSE {Append(c, [route_number |-> RouteNumberPool[n], image_count |-> i,
                     gcp_exists |-> g]) :
             c \in RouteCatalogs(s, n - 1), i \in ImageCounts(s), g \in BOOLEAN}

Batches(s) == UNION {RouteCatalogs(s, n) : n \in 0..MaxRoutes}

process_rgb_route ==
    <<"addChunk", "crs4326", "addPhotos", "requireCameras",
      "import_gcps_from_xml", "crs4258", "save_chunks",
      "matchPhotos", "save_chunks",
      "alignCameras", "requireAlignedSaving", "save_chunks",
      "buildDepthMaps", "save_chunks",
      "buildPointCloud", "save_chunks",
      "exportReport", "enhanced_save_project">>

process_ms_route ==
    <<"addChunk", "crs4326", "addPhotos", "requireCameras",
      "import_gcps_from_xml", "crs4258", "save_chunks",
      "matchPhotos", "save_chunks",
      "alignCameras", "warnUnlessAligned", "save_chunks",
      "buildDepthMaps", "save_chunks",
      "buildPointCloud", "save_chunks",
      "exportReport", "enhanced_save_project">>

process_combined_route ==
    <<"addChunk", "addPhotos", "save_chunks",
      "import_gcps_from_xml", "crs4326", "save_chunks",
      "matchPhotos", "alignCameras", "save_chunks", "requireAligned",
      "buildDepthMaps", "buildPointCloud", "save_chunks",
      "buildModel", "save_chunks",
      "buildTexture", "save_chunks",
      "buildDem", "save_chunks",
      "buildOrthomosaic", "save_chunks",
      "exportRaster", "exportRaster", "exportPoints", "exportReport",
      "enhanced_save_project">>

process_combined_routes ==
    <<"import_route_as_chunk", "save",
      "mergeChunks", "save",
      "matchPhotos", "save",
      "alignCameras", "requireAlignedSaving", "save",
      "buildDepthMaps", "save",
      "generate_point_cloud", "save",
      "exportReport", "enhanced_save_project">>

Program ==
    CASE script = "rgb_single" -> process_rgb_route
      [] script = "ms_single" -> process_ms_route
      [] script = "rgb_ms_single" -> process_combined_route
      [] OTHER -> process_combined_routes

Instr == Program[pc]
At(instrs) == pc > 0 /\ Instr \in instrs

\* One call into the engine: the operation, whether it raised, and the
\* statement of the route function that made it.
Call(op, raised, step) == [op |-> op, raised |-> raised, step |-> step]
\* The directories the user works with, and the route numbers asked for.
DcimDir == "DCIM"
GcpDir == "GCP"
OutputDir == "OUT"
RoutesRequested == SubSeq(RouteNumberPool, 1, MaxRoutes)

\* The GCP file name of a route: f"gcp_route_{route_number}.xml", and
\* f"gcp_route_{route_number}_MS.xml" in the two multispectral scripts.
gcp_filename(route_number) ==
    <<"gcp_route_", route_number,
      IF script \in {"ms_single", "ms_combined"} THEN "_MS.xml" ELSE ".xml">>

\* get_gcp_file_path: os.path.join(gcp_base_path, gcp_filename).
get_gcp_file_path(route_number, gcp_base_path) ==
    <<gcp_base_path>> \o gcp_filename(route_number)

\* The GCP files on disk: those of the GCP directory, for the cataloged
\* routes that have one.  No other directory holds a GCP file.
GcpFilesOnDisk ==
    {get_gcp_file_path(batch[i].route_number, GcpDir) :
        i \in {j \in 1..Len(batch) : batch[j].gcp_exists}}

\* find_routes_by_numbers: the cataloged routes of the DCIM folder whose
\* number was asked for, and no route at all when fewer than two are found.
FoundRoutes(route_numbers, dcim_path) ==
    IF dcim_path # DcimDir THEN <<>>
    ELSE SelectSeq(batch, LAMBDA r :
            \E i \in 1..Len(route_numbers) : route_numbers[i] = r.route_number)

find_routes_by_numbers(route_numbers, dcim_path) ==
    IF Len(FoundRoutes(route_numbers, dcim_path)) < 2 THEN <<>>
    ELSE FoundRoutes(route_numbers, dcim_path)

\* One lookup of the GCP file of a route: the path, os.path.exists of it,
\* whether the lookup raised, and the files on disk after it.  The
\* import_gcps_from_xml of rgb_single and import_gcps_from_xml_ms of
\* ms_single raise FileNotFoundError for a missing file; rgb_ms_single
\* returns False and the multi-route scripts skip the route.
GcpLookup(route_number, gcp_base_path) ==
    [path |-> get_gcp_file_path(route_number, gcp_base_path),
     exists |-> get_gcp_file_path(route_number, gcp_base_path) \in GcpFilesOnDisk,
     raised |-> /\ script \in {"rgb_single", "ms_single"}
                /\ get_gcp_file_path(route_number, gcp_base_path) \notin GcpFilesOnDisk,
     files |-> GcpFilesOnDisk]

\* validate_routes_and_gcps: the routes whose GCP file exists under
\* gcp_base_path; a route without one is skipped.
validate_routes_and_gcps(routes, gcp_base_path) ==
    SelectSeq(routes, LAMBDA r : GcpLookup(r.route_number, gcp_base_path).exists)

LookupsOf(routes, gcp_base_path) ==
    [i \in 1..Len(routes) |-> GcpLookup(routes[i].route_number, gcp_base_path)]

\* found_routes and valid_routes of the run of process_combined_routes.
found_routes == find_routes_by_numbers(run.route_numbers, run.dcim_path)
valid_routes == validate_routes_and_gcps(found_routes, run.gcp_path)


batchVars == <<batch, attempts, successful, failed>>
envVars == <<script, calls, touched, ntpath, dcimExists, dcimPath, dcim, scan, gui>>
otherVars == <<script, calls, touched, ntpath, dcimExists, dcimPath, dcim, scan,
               lookups, config, run, gui>>

\* The statement is done and the next one follows.
GoOn == pc' = pc + 1 /\ outcome' = outcome /\ returned' = returned

\* return True ("ok") or return False ("failed") of the route function.
ReturnFrom(value) == pc' = 0 /\ outcome' = value /\ returned' = returned

\* An engine call raised.  The try of the route function catches it and
\* returns False; rgb_ms_single creates document and chunk before its try,
\* so that exception leaves the route function and the batch loop.
Raise(op) ==
    IF script = "rgb_ms_single" /\ op = "addChunk"
    THEN pc' = 0 /\ outcome' = "raised" /\ returned' = "raised"
    ELSE ReturnFrom("failed")

\* doc.save wrote the project file into the project folder.
Saved == AddEntry(outDir, project[1], project[2])

PlainOps ==
    {"addChunk", "crs4326", "crs4258", "matchPhotos", "buildDepthMaps",
     "buildPointCloud", "buildModel", "buildTexture", "buildDem",
     "buildOrthomosaic", "exportRaster", "exportPoints", "exportReport"}

\* An engine call whose result the script does not look at.
EngineCall ==
    /\ At(PlainOps)
    /\ \E raised \in BOOLEAN :
          /\ ops' = Append(ops, Call(Instr, raised, Instr))
          /\ IF raised THEN Raise(Instr) ELSE GoOn
    /\ UNCHANGED <<chunk, outDir, project, idx>>
    /\ UNCHANGED batchVars
    /\ UNCHANGED otherVars

\* chunk.addPhotos(image_files): the engine adds a camera per image it can
\* read, all of them or none here.
AddPhotos ==
    /\ At({"addPhotos"})
    /\ \E raised \in BOOLEAN, n \in {0, batch[idx + 1].image_count} :
          /\ ops' = Append(ops, Call("addPhotos", raised, Instr))
          /\ chunk' = IF raised THEN chunk ELSE [chunk EXCEPT !.cameras = n]
          /\ IF raised THEN Raise("addPhotos") ELSE GoOn
    /\ UNCHANGED <<outDir, project, idx>>
    /\ UNCHANGED batchVars
    /\ UNCHANGED otherVars

\* if len(chunk.cameras) == 0: return False
RequireCameras ==
    /\ At({"requireCameras"})
    /\ IF chunk.cameras = 0 THEN ReturnFrom("failed") ELSE GoOn
    /\ UNCHANGED <<ops, chunk, outDir, project, idx>>
    /\ UNCHANGED batchVars
    /\ UNCHANGED otherVars

\* import_gcps_from_xml and what its caller does with a failure: rgb_single
\* and ms_single raise on a missing file or a failed import and the caller
\* returns False; rgb_ms_single returns False from the import and the
\* caller goes on.
ImportGcps ==
    /\ At({"import_gcps_from_xml"})
    /\ lookups' = Append(lookups, GcpLookup(batch[idx + 1].route_number, GcpDir))
    /\ IF ~GcpLookup(batch[idx + 1].route_number, GcpDir).exists
       THEN /\ ops' = ops
            /\ chunk' = [chunk EXCEPT !.markers = "missing"]
            /\ IF script = "rgb_ms_single" THEN GoOn ELSE ReturnFrom("failed")
       ELSE \E raised \in BOOLEAN :
               /\ ops' = Append(ops, Call("importMarkers", raised, Instr))
               /\ chunk' = [chunk EXCEPT
                               !.markers = IF raised THEN "raised" ELSE "imported"]
               /\ IF raised /\ script # "rgb_ms_single"
                  THEN ReturnFrom("failed") ELSE GoOn
    /\ UNCHANGED <<outDir, project, idx>>
    /\ UNCHANGED batchVars
    /\ UNCHANGED <<config, run>> /\ UNCHANGED envVars

\* chunk.alignCameras: the engine aligns all cameras or none here.
AlignCameras ==
    /\ At({"alignCameras"})
    /\ \E raised \in BOOLEAN, a \in {0, chunk.cameras} :
          /\ ops' = Append(ops, Call("alignCameras", raised, Instr))
          /\ chunk' = IF raised THEN chunk ELSE [chunk EXCEPT !.aligned = a]
          /\ IF raised THEN Raise("alignCameras") ELSE GoOn
    /\ UNCHANGED <<outDir, project, idx>>
    /\ UNCHANGED batchVars
    /\ UNCHANGED otherVars

\* doc.save(path) in the multi-route scripts, doc.save(path, chunks=[chunk])
\* in the single-route ones.
SaveOp == IF script \in MultiRouteScripts THEN "save" ELSE "save_chunks"

\* The test of aligned_cameras == 0 after alignment: rgb_single and the
\* multi-route scripts save and return False, rgb_ms_single returns False,
\* ms_single prints a warning and goes on.
CheckAligned ==
    /\ At({"requireAlignedSaving", "requireAligned", "warnUnlessAligned"})
    /\ IF chunk.aligned > 0 \/ Instr = "warnUnlessAligned"
       THEN GoOn /\ UNCHANGED <<ops, outDir>>
       ELSE IF Instr = "requireAligned"
       THEN ReturnFrom("failed") /\ UNCHANGED <<ops, outDir>>
       ELSE \E raised \in BOOLEAN :
               /\ ops' = Append(ops, Call(SaveOp, raised, Instr))
               /\ outDir' = IF raised THEN outDir ELSE Saved
               /\ ReturnFrom("failed")
    /\ UNCHANGED <<chunk, project, idx>>
    /\ UNCHANGED batchVars
    /\ UNCHANGED otherVars

\* A save between two stages; a raising save ends the route in its except.
Save ==
    /\ At({"save", "save_chunks"})
    /\ \E raised \in BOOLEAN :
          /\ ops' = Append(ops, Call(Instr, raised, Instr))
          /\ outDir' = IF raised THEN outDir ELSE Saved
          /\ IF raised THEN ReturnFrom("failed") ELSE GoOn
    /\ UNCHANGED <<chunk, project, idx>>
    /\ UNCHANGED batchVars
    /\ UNCHANGED otherVars

\* generate_point_cloud of the multi-route scripts: without a point cloud
\* the caller saves and returns False.
GeneratePointCloud ==
    /\ At({"generate_point_cloud"})
    /\ \E raised \in BOOLEAN, cloud \in BOOLEAN, save_raised \in BOOLEAN :
          IF raised \/ cloud
          THEN /\ ops' = Append(ops, Call("buildPointCloud", raised, Instr))
               /\ outDir' = outDir
               /\ IF raised THEN ReturnFrom("failed") ELSE GoOn
          ELSE /\ ops' = ops \o <<Call("buildPointCloud", FALSE, Instr),
                                  Call("save", save_raised, Instr)>>
               /\ outDir' = IF save_raised THEN outDir ELSE Saved
               /\ ReturnFrom("failed")
    /\ UNCHANGED <<chunk, project, idx>>
    /\ UNCHANGED batchVars
    /\ UNCHANGED otherVars

\* enhanced_save_project of script s: the doc.save calls it makes when the
\* first and the second call raise or not, and what it returns.
enhanced_save_project(s, first_raises, second_raises) ==
    IF s \in MultiRouteScripts
    THEN [saves |-> <<Call("save", first_raises, "enhanced_save_project")>>,
          ok |-> ~first_raises]
    ELSE IF ~first_raises
    THEN [saves |-> <<Call("save_chunks_archive", FALSE, "enhanced_save_project")>>,
          ok |-> TRUE]
    ELSE [saves |-> <<Call("save_chunks_archive", TRUE, "enhanced_save_project"),
                      Call("save", second_raises, "enhanced_save_project")>>,
          ok |-> ~second_raises]

\* The final save and the return of the route function.
FinalSave ==
    /\ At({"enhanced_save_project"})
    /\ \E first_raises \in BOOLEAN, second_raises \in BOOLEAN :
          /\ ops' = ops \o enhanced_save_project(script, first_raises,
                                                 second_raises).saves
          /\ IF enhanced_save_project(script, first_raises, second_raises).ok
             THEN outDir' = Saved /\ ReturnFrom("ok")
             ELSE outDir' = outDir /\ ReturnFrom("failed")
    /\ UNCHANGED <<chunk, project, idx>>
    /\ UNCHANGED batchVars
    /\ UNCHANGED otherVars

\* import_route_as_chunk for the next valid route, inside the loop of
\* process_combined_routes that returns False at the first failure.
ImportRouteAsChunk ==
    /\ At({"import_route_as_chunk"})
    /\ \E n \in {0, valid_routes[idx + 1].image_count},
          raised \in BOOLEAN :
          /\ ops' = ops \o
                <<Call("addChunk", FALSE, Instr), Call("crs4326", FALSE, Instr),
                  Call("addPhotos", FALSE, Instr)>> \o
                (IF n = 0 THEN <<>>
                 ELSE IF raised THEN <<Call("importMarkers", TRUE, Instr)>>
                 ELSE <<Call("importMarkers", FALSE, Instr),
                        Call("crs4258", FALSE, Instr)>>)
          /\ chunk' = [NoChunk EXCEPT
                          !.cameras = n,
                          !.markers = IF n = 0 THEN "none"
                                      ELSE IF raised THEN "raised" ELSE "imported"]
          /\ IF n = 0 \/ raised
             THEN /\ idx' = idx
                  /\ ReturnFrom("failed")
             ELSE /\ idx' = idx + 1
                  /\ pc' = IF idx + 1 = Len(valid_routes)
                           THEN pc + 1 ELSE pc
                  /\ outcome' = outcome
                  /\ returned' = returned
    /\ attempts' = Append(attempts,
                          valid_routes[idx + 1].route_number)
    /\ UNCHANGED <<outDir, project, batch, successful, failed>>
    /\ UNCHANGED otherVars

RECURSIVE CamerasOf(_)
CamerasOf(routes) ==
    IF routes = <<>> THEN 0
    ELSE Head(routes).image_count + CamerasOf(Tail(routes))

\* merge_chunks_with_validation without its test of the merged projections.
MergeWithoutProjectionTest(engine_raises, new_chunk, cameras, projections) ==
    engine_raises \/ ~new_chunk

\* merge_chunks_with_validation raises: doc.mergeChunks raised, the document
\* has no new chunk after it, or the markers of the merged chunk have no
\* projection.  A camera count that differs from the sum before the merge
\* prints a warning only.
merge_chunks_with_validation(engine_raises, new_chunk, cameras, projections) ==
    engine_raises \/ ~new_chunk \/ projections = 0

\* The merge step of process_combined_routes: the engine merges the imported
\* chunks into a chunk with its own camera and projection counts; when
\* merge_chunks_with_validation raises the run returns False.
MergeChunks ==
    /\ At({"mergeChunks"})
    /\ \E engine_raises \in BOOLEAN, new_chunk \in BOOLEAN,
          merged_cameras \in {CamerasOf(valid_routes),
                              CamerasOf(valid_routes) - 1},
          merged_projections \in {0, 2} :
          /\ ops' = Append(ops, Call("mergeChunks", engine_raises, Instr))
          /\ chunk' = IF engine_raises \/ ~new_chunk THEN chunk
                      ELSE [chunk EXCEPT !.merged = TRUE,
                                         !.cameras = merged_cameras,
                                         !.projections = merged_projections]
          /\ IF merge_chunks_with_validation(engine_raises, new_chunk,
                                             merged_cameras, merged_projections)
             THEN ReturnFrom("failed") ELSE GoOn
    /\ UNCHANGED <<outDir, project, idx>>
    /\ UNCHANGED batchVars
    /\ UNCHANGED otherVars

\* The project folder and the project file name a single-route script saves
\* to, from what its versioner returned.
ProjectOf(s, route_number, ret) ==
    IF s = "rgb_ms_single"
    THEN <<ret[1], <<"route_", route_number, "_combined.psx">>>>
    ELSE <<ret[1], ret[2][2]>>

CreateStructure(s, fs, route_number) ==
    CASE s = "rgb_single" -> create_project_structure(fs, route_number)
      [] s = "ms_single" -> create_project_structure_ms(fs, route_number)
      [] s = "rgb_ms_single" -> create_project_structure_combined(fs, route_number)

\* The route function is entered with route r and versioner result v.
EnterRoute(r, v) ==
    /\ attempts' = Append(attempts, r.route_number)
    /\ outDir' = v.fs
    /\ project' = ProjectOf(script, r.route_number, v.ret)
    /\ ops' = <<>>
    /\ chunk' = NoChunk
    /\ idx' = idx
    /\ IF r.image_count = 0
       THEN pc' = 0 /\ outcome' = "failed"
       ELSE pc' = 1 /\ outcome' = "none"

\* One turn of the batch loop up to the try of the route function:
\* rgb_ms_single skips a route without images, every script calls its
\* versioner, rgb_single and ms_single return False without images.
StartRoute ==
    /\ script \in SingleRouteScripts
    /\ returned = "no" /\ pc = 0 /\ outcome = "none"
    /\ idx < Len(batch)
    /\ IF script = "rgb_ms_single" /\ batch[idx + 1].image_count = 0
       THEN /\ idx' = idx + 1
            /\ UNCHANGED <<attempts, outDir, project, ops, chunk, pc, outcome>>
       ELSE EnterRoute(batch[idx + 1],
                       CreateStructure(script, outDir, batch[idx + 1].route_number))
    /\ UNCHANGED <<batch, successful, failed, returned>>
    /\ UNCHANGED otherVars

\* if success: successful += 1 else: failed += 1
CountRoute ==
    /\ script \in SingleRouteScripts
    /\ pc = 0 /\ outcome \in {"ok", "failed"}
    /\ successful' = IF outcome = "ok" THEN successful + 1 ELSE successful
    /\ failed' = IF outcome = "ok" THEN failed ELSE failed + 1
    /\ idx' = idx + 1
    /\ outcome' = "none"
    /\ UNCHANGED <<batch, attempts, returned, pc, ops, chunk, outDir, project>>
    /\ UNCHANGED otherVars

\* return successful > 0 after the loop (return False on an empty catalog).
BatchReturn ==
    /\ script \in SingleRouteScripts
    /\ returned = "no" /\ pc = 0 /\ outcome = "none"
    /\ idx = Len(batch)
    /\ returned' = IF successful > 0 THEN "true" ELSE "false"
    /\ UNCHANGED <<batch, idx, attempts, successful, failed, pc, ops, chunk,
                   outDir, project, outcome>>
    /\ UNCHANGED otherVars

RouteNumbersOf(routes) == [i \in 1..Len(routes) |-> routes[i].route_number]

CreateCombinedStructure(s, fs, route_numbers) ==
    CASE s = "rgb_combined" -> create_combined_project_structure_rgb(fs, route_numbers)
      [] s = "ms_combined" -> create_combined_project_structure_ms(fs, route_numbers)
      [] s = "rgb_ms_combined" ->
            create_combined_project_structure_rgb_ms(fs, route_numbers)

\* configure_paths(dcim, gcp, output): the three path globals are assigned.
ConfigurePaths ==
    /\ script \in MultiRouteScripts
    /\ run = NoRun
    /\ \E dcim_arg \in {"", DcimDir}, gcp_arg \in {"", GcpDir},
          output_arg \in {"", OutputDir} :
          config' = [config EXCEPT !.dcim_base_path = dcim_arg,
                                   !.gcp_base_path = gcp_arg,
                                   !.output_base_path = output_arg]
    /\ UNCHANGED <<batch, idx, attempts, successful, failed, returned, pc, ops,
                   chunk, project, outcome, run, outDir, lookups>>
    /\ UNCHANGED envVars

\* configure_routes(route_numbers, dcim_path, gcp_path, output_path): the
\* route list is assigned, and each path that is passed and not empty.
ConfigureRoutes ==
    /\ script \in MultiRouteScripts
    /\ run = NoRun
    /\ \E route_numbers \in {<<>>, RoutesRequested},
          passed \in {{}, {"output_path"},
                      {"dcim_path", "gcp_path", "output_path"}} :
          config' =
            [routes_to_combine |-> route_numbers,
             dcim_base_path |-> IF "dcim_path" \in passed THEN DcimDir
                                ELSE config.dcim_base_path,
             gcp_base_path |-> IF "gcp_path" \in passed THEN GcpDir
                               ELSE config.gcp_base_path,
             output_base_path |-> IF "output_path" \in passed THEN OutputDir
                                  ELSE config.output_base_path]
    /\ UNCHANGED <<batch, idx, attempts, successful, failed, returned, pc, ops,
                   chunk, project, outcome, run, outDir, lookups>>
    /\ UNCHANGED envVars

\* validate_configuration raises ValueError at the first global that is
\* not set.
ConfigurationValid ==
    /\ config.dcim_base_path # ""
    /\ config.gcp_base_path # ""
    /\ config.output_base_path # ""
    /\ config.routes_to_combine # <<>>

\* The arguments of process_combined_routes as its first lines resolve
\* them; `passed` holds the names of the arguments given (the others are
\* None).  rgb_ms_combined takes the gcp_path that is not given from its
\* own output_path argument, before that one is resolved.
ResolvedArguments(s, entry, passed) ==
    [entry |-> entry,
     passed |-> passed,
     error |-> "none",
     route_numbers |-> IF "route_numbers" \in passed THEN RoutesRequested
                       ELSE config.routes_to_combine,
     dcim_path |-> IF "dcim_path" \in passed THEN DcimDir
                   ELSE config.dcim_base_path,
     gcp_path |-> IF "gcp_path" \in passed THEN GcpDir
                  ELSE IF s = "rgb_ms_combined"
                       THEN (IF "output_path" \in passed THEN OutputDir ELSE "")
                       ELSE config.gcp_base_path,
     output_path |-> IF "output_path" \in passed THEN OutputDir
                     ELSE config.output_base_path]

ConfigurationIncomplete(r) ==
    r.dcim_path = "" \/ r.gcp_path = "" \/ r.output_path = "" \/ r.route_numbers = <<>>

\* process_combined_routes of a multi-route script up to the import loop:
\* an incomplete configuration, fewer than two routes found, or no route
\* with its GCP file, returns False before a folder is made.
StartError(r) ==
    IF ConfigurationIncomplete(r) THEN "Configuration incomplete"
    ELSE IF find_routes_by_numbers(r.route_numbers, r.dcim_path) = <<>>
    THEN "route discovery failed"
    ELSE IF validate_routes_and_gcps(
                find_routes_by_numbers(r.route_numbers, r.dcim_path),
                r.gcp_path) = <<>>
    THEN "route validation failed"
    ELSE "none"

StartCombined(r) ==
    /\ run' = [r EXCEPT !.error = StartError(r)]
    /\ lookups' = IF ConfigurationIncomplete(r) THEN lookups
                  ELSE LookupsOf(find_routes_by_numbers(r.route_numbers, r.dcim_path),
                                 r.gcp_path)
    /\ IF StartError(r) # "none"
       THEN returned' = "false" /\ UNCHANGED <<outDir, project, pc>>
       ELSE /\ outDir' = CreateCombinedStructure(script, outDir,
                                                 r.route_numbers).fs
            /\ project' = ProjectOf(script, "",
                              CreateCombinedStructure(script, outDir,
                                                      r.route_numbers).ret)
            /\ pc' = 1
            /\ returned' = returned
    /\ UNCHANGED <<batch, idx, attempts, successful, failed, ops, chunk, outcome,
                   config>>
    /\ UNCHANGED envVars

\* process_combined_routes called by the user, with or without arguments.
ProcessCombinedRoutes ==
    /\ script \in MultiRouteScripts
    /\ run = NoRun /\ returned = "no"
    /\ \E passed \in {{}, {"output_path"},
                      {"route_numbers", "dcim_path", "gcp_path", "output_path"}} :
          StartCombined(ResolvedArguments(script, "process_combined_routes", passed))

\* run_combined_rgb_automation, run_combined_ms_automation and
\* run_combined_rgb_ms_automation: validate_configuration(), then
\* process_combined_routes() without an argument.
RunCombinedAutomation ==
    /\ script \in MultiRouteScripts
    /\ run = NoRun /\ returned = "no"
    /\ IF ConfigurationValid
       THEN StartCombined(ResolvedArguments(script, "run_combined_automation", {}))
       ELSE /\ run' = [NoRun EXCEPT !.entry = "run_combined_automation",
                                    !.error = "ValueError"]
            /\ returned' = "raised"
            /\ UNCHANGED <<batch, idx, attempts, successful, failed, ops, chunk,
                           outcome, config, outDir, project, pc, lookups>>
            /\ UNCHANGED envVars

\* process_combined_routes returns what its pipeline came to.
ReturnCombined ==
    /\ script \in MultiRouteScripts
    /\ returned = "no" /\ pc = 0 /\ outcome \in {"ok", "failed"}
    /\ returned' = IF outcome = "ok" THEN "true" ELSE "false"
    /\ UNCHANGED <<batch, idx, attempts, successful, failed, pc, ops, chunk,
                   outDir, project, outcome>>
    /\ UNCHANGED otherVars

PipelineScripts == SingleRouteScripts \cup MultiRouteScripts

PipelineInit ==
    /\ script \in PipelineScripts
    /\ batch \in Batches(script)
    /\ idx = 0
    /\ attempts = <<>>
    /\ successful = 0
    /\ failed = 0
    /\ returned = "no"
    /\ pc = 0
    /\ ops = <<>>
    /\ chunk = NoChunk
    /\ project = <<>>
    /\ outcome = "none"
    /\ config = NoConfig
    /\ run = NoRun
    /\ lookups = <<>>
    /\ VersionerIdle
    /\ ScanIdle
    /\ gui = NoGui

PipelineNext ==
    \/ StartRoute
    \/ ConfigurePaths
    \/ ConfigureRoutes
    \/ ProcessCombinedRoutes
    \/ RunCombinedAutomation
    \/ EngineCall
    \/ AddPhotos
    \/ RequireCameras
    \/ ImportGcps
    \/ AlignCameras
    \/ CheckAligned
    \/ Save
    \/ GeneratePointCloud
    \/ FinalSave
    \/ ImportRouteAsChunk
    \/ MergeChunks
    \/ CountRoute
    \/ BatchReturn
    \/ ReturnCombined

SpecPipeline == PipelineInit /\ [][PipelineNext]_vars

(***************************************************************************)
(* Claims about the pipelines                                              *)
(***************************************************************************)
\* The calls made for the chunk at hand: from its doc.addChunk() on (a
\* multi-route script makes one chunk per route in one run).
ChunkStart ==
    IF \E i \in 1..Len(ops) : ops[i].op = "addChunk"
    THEN CHOOSE i \in 1..Len(ops) :
            /\ ops[i].op = "addChunk"
            /\ \A j \in (i + 1)..Len(ops) : ops[j].op # "addChunk"
    ELSE 1

OpIndexes == ChunkStart..Len(ops)

\* The stages of a route in the order the specification gives them.
StageOrder ==
    <<"create chunk", "add images", "import markers", "set final CRS",
      "match photos", "align cameras", "build depth maps", "build point cloud",
      "mesh", "texture", "DEM", "orthomosaic", "export report", "final save">>

OptionalStages == {"mesh", "texture", "DEM", "orthomosaic"}

\* The last coordinate system a route function assigns.
FinalCrsOp == IF script = "rgb_ms_single" THEN "crs4326" ELSE "crs4258"

\* The stage an engine call belongs to ("" for a call that is no stage:
\* a save between stages, the first coordinate system, a product export).
StageOfCall(c) ==
    CASE c.step = "enhanced_save_project" ->
            IF c.op = "save_chunks_archive" \/ script \in MultiRouteScripts
            THEN "final save" ELSE ""
      [] c.op = "addChunk" -> "create chunk"
      [] c.op = "addPhotos" -> "add images"
      [] c.op = "importMarkers" -> "import markers"
      [] c.op = FinalCrsOp -> "set final CRS"
      [] c.op = "matchPhotos" -> "match photos"
      [] c.op = "alignCameras" -> "align cameras"
      [] c.op = "buildDepthMaps" -> "build depth maps"
      [] c.op = "buildPointCloud" -> "build point cloud"
      [] c.op = "buildModel" -> "mesh"
      [] c.op = "buildTexture" -> "texture"
      [] c.op = "buildDem" -> "DEM"
      [] c.op = "buildOrthomosaic" -> "orthomosaic"
      [] c.op = "exportReport" -> "export report"
      [] OTHER -> ""

StageRank(stage) == CHOOSE k \in 1..Len(StageOrder) : StageOrder[k] = stage

\* The stages that come before a stage in every route of the script.
EarlierStages(stage) ==
    {StageOrder[k] : k \in 1..(StageRank(stage) - 1)}
        \ (IF script = "rgb_ms_single" THEN {} ELSE OptionalStages)

\* Stage s was invoked and returned before the i-th call of the route.
ReturnedBefore(s, i) ==
    \E j \in ChunkStart..(i - 1) : StageOfCall(ops[j]) = s /\ ~ops[j].raised

\* C14: in every single-route pipeline a stage of a route is invoked only
\* after every earlier stage of the fixed order (create chunk, add images,
\* import markers, set final CRS, match photos, align cameras, build depth
\* maps, build point cloud, the optional mesh, texture, DEM and orthomosaic,
\* export report, final save) has been invoked and has returned.
C14_StagesInFixedOrder ==
    script \in SingleRouteScripts =>
        \A i \in OpIndexes :
            StageOfCall(ops[i]) # "" =>
                \A s \in EarlierStages(StageOfCall(ops[i])) : ReturnedBefore(s, i)

\* The stages between which the project is to be saved.
SavedStages ==
    {"add images", "import markers", "match photos", "align cameras",
     "build depth maps", "build point cloud", "mesh", "texture", "DEM",
     "orthomosaic"}

SaveOps == {"save", "save_chunks", "save_chunks_archive"}

\* The i-th and the j-th call are engine stages with no stage between them.
ConsecutiveStages(i, j) ==
    /\ i < j
    /\ StageOfCall(ops[i]) \in SavedStages
    /\ StageOfCall(ops[j]) \in SavedStages
    /\ \A k \in (i + 1)..(j - 1) : StageOfCall(ops[k]) \notin SavedStages

\* C15: in every pipeline variant the project is saved at least once between
\* any two consecutive engine stages of a route (add images, import markers,
\* match photos, align cameras, build depth maps, build point cloud, mesh,
\* texture, DEM, orthomosaic).
C15_SavedBetweenStages ==
    \A i, j \in OpIndexes :
        ConsecutiveStages(i, j) =>
            \E k \in (i + 1)..(j - 1) : ops[k].op \in SaveOps /\ ~ops[k].raised

\* Stage s of the current route was invoked.
Invoked(s) == \E i \in OpIndexes : StageOfCall(ops[i]) = s

\* The stages from stage s on.
StagesFrom(s) == {StageOrder[k] : k \in StageRank(s)..Len(StageOrder)}

\* The route function has returned for the route whose calls are in ops.
RouteOver == pc = 0 /\ ops # <<>>

\* The route whose calls are in ops was not a success and, once it is over
\* and counted, it is in the counter of failed routes (the run has returned
\* False in a multi-route script).
RecordedFailed ==
    /\ outcome # "ok"
    /\ (RouteOver /\ outcome = "none") => failed > 0
    /\ script \in MultiRouteScripts => returned # "true"

\* alignCameras returned and no camera has a transform.
ZeroAligned ==
    /\ \E i \in OpIndexes : ops[i].op = "alignCameras" /\ ~ops[i].raised
    /\ chunk.aligned = 0

\* C16: in every pipeline variant a route whose alignment leaves zero
\* aligned cameras is aborted: build depth maps and the later stages are
\* never invoked for it and the route is recorded as failed.
C16_ZeroAlignedAborts ==
    ZeroAligned =>
        /\ \A s \in StagesFrom("build depth maps") : ~Invoked(s)
        /\ RecordedFailed

\* The marker import of the route failed: its GCP file is missing or
\* chunk.importMarkers raised.
MarkerImportFailed == chunk.markers \in {"missing", "raised"}

\* C17: in every pipeline variant a route whose marker import fails (GCP
\* file missing, or the import raising) is aborted: match photos and the
\* later stages are never invoked for it and the route is recorded as failed.
C17_FailedMarkerImportAborts ==
    MarkerImportFailed =>
        /\ \A s \in StagesFrom("match photos") : ~Invoked(s)
        /\ RecordedFailed

\* addPhotos returned and the chunk has no camera.
ZeroCameras ==
    /\ \E i \in OpIndexes : ops[i].op = "addPhotos" /\ ~ops[i].raised
    /\ chunk.cameras = 0

\* C18: in every pipeline variant a route whose images give zero cameras is
\* aborted: import markers, match photos and the later stages are never
\* invoked for it and the route is recorded as failed.
C18_ZeroCamerasAborts ==
    ZeroCameras =>
        /\ \A s \in StagesFrom("import markers") : ~Invoked(s)
        /\ RecordedFailed

\* C19: a batch run of a single-route script that has returned has
\* attempted every route of its batch exactly once, in order and whatever
\* the routes before it came to, has counted each of them once as
\* successful or failed, and has returned True exactly when at least one
\* route succeeded.
C19_EveryRouteAttemptedAndCounted ==
    (script \in SingleRouteScripts /\ returned # "no") =>
        /\ attempts = RouteNumbersOf(batch)
        /\ successful + failed = Len(batch)
        /\ returned = "true" <=> successful > 0

\* The doc.save calls of the final save of the route.
FinalSaves == SelectSeq(ops, LAMBDA c : c.step = "enhanced_save_project")

\* C20: the final save of every pipeline variant makes a second attempt,
\* without the chunk-scoping argument, when and only when the first attempt
\* raised, never a third one, and reports failure only when both raised.
C20_SaveRetriedOnceUnscoped ==
    FinalSaves # <<>> =>
        /\ Len(FinalSaves) = (IF FinalSaves[1].raised THEN 2 ELSE 1)
        /\ Len(FinalSaves) = 2 => FinalSaves[2].op = "save"
        /\ outcome = "failed" =>
              /\ Len(FinalSaves) = 2
              /\ FinalSaves[1].raised
              /\ FinalSaves[2].raised

(***************************************************************************)
(* Claims about the multi-route merge                                      *)
(***************************************************************************)
\* The engine merged the chunks and the markers of the merged chunk have no
\* projection.
ZeroProjections == chunk.merged /\ chunk.projections = 0

\* C21: in the multi-route scripts a merge whose merged chunk has zero
\* marker projections is a hard failure: the run returns False and match
\* photos and the later stages are never invoked.
C21_ZeroProjectionsFailTheRun ==
    (script \in MultiRouteScripts /\ ZeroProjections) =>
        /\ \A s \in StagesFrom("match photos") : ~Invoked(s)
        /\ pc = 0
        /\ outcome = "failed"
        /\ returned \in {"no", "false"}

C21_Witness ==
    script \in MultiRouteScripts /\ ZeroProjections /\ returned = "false"

\* The merged chunk was handed on to the shared pipeline.
MergedChunkHandedOn == chunk.merged /\ Invoked("match photos")

\* C22: a merged chunk is handed on to the shared pipeline only when its
\* camera count equals the sum of the camera counts of the merged chunks.
C22_CameraCountConserved ==
    (script \in MultiRouteScripts /\ MergedChunkHandedOn) =>
        chunk.cameras = CamerasOf(valid_routes)

\* What an entry point of a multi-route script had to work with: a value
\* is unset when it is neither passed nor configured.
Entered == script \in MultiRouteScripts /\ run.entry # "none"
DcimUnset == "dcim_path" \notin run.passed /\ config.dcim_base_path = ""
GcpUnset == "gcp_path" \notin run.passed /\ config.gcp_base_path = ""
OutputUnset == "output_path" \notin run.passed /\ config.output_base_path = ""
RoutesUnset == "route_numbers" \notin run.passed /\ config.routes_to_combine = <<>>
SomethingUnset == DcimUnset \/ GcpUnset \/ OutputUnset \/ RoutesUnset
ConfigurationErrorReported == run.error \in {"ValueError", "Configuration incomplete"}

\* C23: in the multi-route scripts, when the DCIM path, the GCP path, the
\* output path or the route list is unset or empty, the entry point reports
\* the configuration error and stops: no project folder is made and the
\* engine is not called.
C23_UnsetConfigurationStops ==
    (Entered /\ SomethingUnset) =>
        /\ ConfigurationErrorReported
        /\ returned \in {"false", "raised"}
        /\ outDir = <<>> /\ project = <<>> /\ ops = <<>> /\ pc = 0

\* C24: in rgb_ms_combined, run_combined_rgb_ms_automation() called with
\* the three paths and the route list configured goes on to route discovery
\* and validates the routes against the GCP files of the configured GCP
\* directory: it does not stop on an incomplete configuration and does not
\* look for GCP files under the output path.
C24_ConfiguredRunUsesGcpDirectory ==
    (/\ script = "rgb_ms_combined"
     /\ run.entry = "run_combined_automation"
     /\ ConfigurationValid) =>
        /\ run.error # "Configuration incomplete"
        /\ run.gcp_path = config.gcp_base_path

\* The requested routes that pass both discovery and GCP validation.
RoutesPassing ==
    validate_routes_and_gcps(FoundRoutes(run.route_numbers, run.dcim_path),
                             run.gcp_path)
ChunkImported == \E i \in 1..Len(ops) : ops[i].op = "addChunk"
MergeInvoked == \E i \in 1..Len(ops) : ops[i].op = "mergeChunks"

\* C28: a multi-route run merges at least two routes: when fewer than two
\* requested routes pass both discovery and GCP validation,
\* process_combined_routes fails without importing a chunk and without
\* invoking the merge.
C28_FewerThanTwoRoutesFail ==
    (Entered /\ Len(RoutesPassing) < 2) =>
        /\ returned \in {"false", "raised"}
        /\ ~ChunkImported
        /\ ~MergeInvoked

\* The coordinate system of the chunk at hand when its call i is made: the
\* last one assigned since the chunk was created ("none" when none was).
CrsOps == {"crs4326", "crs4258"}
CrsAssignedBefore(i) == {j \in ChunkStart..(i - 1) : ops[j].op \in CrsOps}
CrsBefore(i) ==
    IF CrsAssignedBefore(i) = {} THEN "none"
    ELSE ops[CHOOSE j \in CrsAssignedBefore(i) :
                \A k \in CrsAssignedBefore(i) : k <= j].op
MarkersImportedBefore(i) ==
    \E j \in ChunkStart..(i - 1) : ops[j].op = "importMarkers" /\ ~ops[j].raised

\* C25: in every variant the chunk works in EPSG:4326 from its creation
\* until the marker import has succeeded, is switched to EPSG:4258 only
\* after a successful marker import, and is in EPSG:4258 when photo matching
\* is invoked.
C25_CrsSwitchedAfterMarkerImport ==
    \A i \in OpIndexes :
        /\ (ops[i].op = "crs4258") => MarkersImportedBefore(i)
        /\ (i > ChunkStart /\ ops[i].op \notin CrsOps /\ ~MarkersImportedBefore(i))
              => CrsBefore(i) = "crs4326"
        /\ (ops[i].op = "matchPhotos") => CrsBefore(i) = "crs4258"

\* The file name the specification gives the GCP file of a processing type.
GcpSuffix ==
    IF script \in {"ms_single", "ms_combined"} THEN "_MS.xml" ELSE ".xml"

\* C26: looking up the GCP file of a route does not fail when the file is
\* missing: the lookup reports that the file does not exist, with the path
\* the file name template gives, without raising and without creating the
\* file, and leaves the decision to the caller.
C26_MissingGcpFileIsReported ==
    \A i \in 1..Len(lookups) :
        ~lookups[i].exists =>
            /\ ~lookups[i].raised
            /\ lookups[i].path[2] = "gcp_route_" /\ lookups[i].path[4] = GcpSuffix
            /\ lookups[i].path \notin lookups[i].files

(***************************************************************************)
(* The configuration tool (MetashapeConfigTool): its fields and lists, the *)
(* configuration file it saves and loads, and the commands it generates.   *)
(***************************************************************************)
\* Most events of one session of the tool.
MaxEvents == 3

ScriptsDir == "SCRIPTS"
RouteModes == {"Single", "Multiple"}

\* self.script_paths as __init__ and reset_config set it.
DefaultScriptPaths ==
    [rgb_single |-> "rgb_single_automation_generic.py",
     ms_single |-> "ms_single_automation_generic.py",
     rgb_ms_single |-> "rgb_ms_single_automation_generic.py",
     rgb_combined |-> "rgb_combined_automation_generic.py",
     ms_combined |-> "ms_combined_automation_generic.py",
     rgb_ms_combined |-> "rgb_ms_combined_automation_generic.py"]

\* A script path override the user may configure.
CustomPaths == [rgb_single |-> "my_rgb_single.py"]

\* dict.update
UpdateDict(d, u) ==
    [k \in DOMAIN d \cup DOMAIN u |-> IF k \in DOMAIN u THEN u[k] ELSE d[k]]

\* The fields of the tool after the assignments of __init__, before it
\* loads the configuration file cf (<<>> when there is none on disk).
FreshTool(cf) ==
    [dcim_path |-> "", gcp_path |-> "", output_path |-> "", script_base_path |-> "",
     processing_type |-> "RGB", route_mode |-> "Single",
     script_paths |-> DefaultScriptPaths,
     detected_routes |-> <<>>, selected_routes |-> <<>>,
     command_lines |-> <<>>,
     status |-> "Ready",
     config_file |-> cf,
     last_event |-> "none", events |-> 0]

\* scan_routes: a DCIM path that is empty or does not exist shows a warning
\* and changes nothing; otherwise the scan result replaces detected_routes
\* and the list box is filled again.  selected_routes is not assigned.
scan_routes(g) ==
    IF g.dcim_path = "" \/ ~dcimExists THEN g
    ELSE [g EXCEPT !.detected_routes =
              scan_dcim_folders_config_tool(ntpath, dcimExists, dcimPath,
                                            g.processing_type, dcim)]

\* update_preview
update_preview(g) == IF g.dcim_path = "" THEN g ELSE scan_routes(g)

RouteNumbersOfSelection(g) ==
    [i \in 1..Len(g.selected_routes) |-> g.selected_routes[i].route_number]

\* The config_data that save_config writes (version and timestamp aside).
save_config_data(g) ==
    [paths |-> [dcim |-> g.dcim_path, gcp |-> g.gcp_path, output |-> g.output_path,
                script_base |-> g.script_base_path],
     processing |-> [type |-> g.processing_type, mode |-> g.route_mode],
     script_paths |-> g.script_paths,
     routes |-> [detected_count |-> Len(g.detected_routes),
                 selected_routes |-> RouteNumbersOfSelection(g)]]

\* The fields a load assigns from config_data, in the order of the code.
LoadedFields(g, config_data) ==
    [g EXCEPT !.dcim_path = config_data.paths.dcim,
              !.gcp_path = config_data.paths.gcp,
              !.output_path = config_data.paths.output,
              !.script_base_path = config_data.paths.script_base,
              !.processing_type = config_data.processing.type,
              !.route_mode = config_data.processing.mode,
              !.script_paths = UpdateDict(g.script_paths, config_data.script_paths)]

\* The body of load_config and of load_config_file after the file is read:
\* the fields are assigned, the preview is updated, and with a DCIM path
\* that exists self.refresh_routes() is called.  The class defines no
\* refresh_routes: the AttributeError is caught by the handler, which sets
\* the status to the failure message.
load_config_data(g, config_data) ==
    [update_preview(LoadedFields(g, config_data)) EXCEPT
        !.status = IF config_data.paths.dcim # "" /\ dcimExists
                   THEN "Failed to load configuration"
                   ELSE "Configuration loaded"]

\* load_config
load_config(g) ==
    IF g.config_file = <<>>
    THEN [g EXCEPT !.status = "No saved configuration found"]
    ELSE load_config_data(g, g.config_file[1])

\* MetashapeConfigTool.__init__ with the configuration file cf on disk.
MetashapeConfigTool(cf) ==
    [update_preview(load_config(FreshTool(cf))) EXCEPT !.last_event = "__init__"]

\* validate_inputs
validate_inputs(g) ==
    /\ g.script_base_path # ""
    /\ g.dcim_path # ""
    /\ g.gcp_path # ""
    /\ g.output_path # ""
    /\ g.selected_routes # <<>>
    /\ ~(g.route_mode = "Multiple" /\ Len(g.selected_routes) < 2)

\* The script name build_command_lines takes from self.script_paths.
ScriptNameOf(g) ==
    IF g.route_mode = "Single"
    THEN CASE g.processing_type = "RGB" -> g.script_paths.rgb_single
           [] g.processing_type = "MS" -> g.script_paths.ms_single
           [] g.processing_type = "Combined" -> g.script_paths.rgb_ms_single
    ELSE CASE g.processing_type = "RGB" -> g.script_paths.rgb_combined
           [] g.processing_type = "MS" -> g.script_paths.ms_combined
           [] g.processing_type = "Combined" -> g.script_paths.rgb_ms_combined

\* str.lower on the three processing types.
LowerType(processing_type) ==
    CASE processing_type = "RGB" -> "rgb"
      [] processing_type = "MS" -> "ms"
      [] processing_type = "Combined" -> "combined"

\* One generated line: the function it calls (its name in parts), the
\* number of positional arguments, the keywords, and what it names.
CommandLine(fn, positional, keywords, names) ==
    [fn |-> fn, positional |-> positional, keywords |-> keywords, names |-> names]

\* build_command_lines
build_command_lines(g) ==
    IF g.route_mode = "Single"
    THEN <<CommandLine(<<"exec">>, 1, {}, <<ScriptNameOf(g)>>),
           CommandLine(<<"configure_paths">>, 0, {"dcim", "gcp", "output"},
                       <<g.dcim_path, g.gcp_path, g.output_path>>),
           CommandLine(<<"process_single_route_by_number">>, 1, {},
                       <<RouteNumbersOfSelection(g)[1]>>)>>
    ELSE <<CommandLine(<<"exec">>, 1, {}, <<ScriptNameOf(g)>>),
           CommandLine(<<"configure_paths">>, 0, {"dcim", "gcp", "output"},
                       <<g.dcim_path, g.gcp_path, g.output_path>>),
           CommandLine(<<"configure_routes">>, 1, {}, RouteNumbersOfSelection(g)),
           CommandLine(<<"run_combined_", LowerType(g.processing_type),
                         "_automation">>, 0, {}, <<>>)>>

\* Everything but the tool.
toolFrame == <<script, outDir, calls, touched, ntpath, dcimExists, dcimPath, dcim, scan,
               batch, idx, attempts, successful, failed, returned, pc, ops,
               chunk, project, outcome, lookups, config, run>>

\* One event of the session: the handler leaves the tool as `after`.
SessionOpen == script = "config_tool" /\ gui.events < MaxEvents

Handle(event, after) ==
    /\ gui' = [after EXCEPT !.last_event = event, !.events = gui.events + 1]
    /\ UNCHANGED toolFrame

\* browse_script_path (an empty answer of the dialog changes nothing)
BrowseScriptPath ==
    /\ SessionOpen
    /\ Handle("browse_script_path", [gui EXCEPT !.script_base_path = ScriptsDir])

\* browse_dcim
BrowseDcim ==
    /\ SessionOpen
    /\ \E folder \in {"", DcimDir} :
        Handle("browse_dcim",
               IF folder = "" THEN gui
               ELSE update_preview([gui EXCEPT !.dcim_path = folder]))

\* browse_gcp
BrowseGcp ==
    /\ SessionOpen
    /\ Handle("browse_gcp", [gui EXCEPT !.gcp_path = GcpDir])

\* browse_output
BrowseOutput ==
    /\ SessionOpen
    /\ Handle("browse_output", [gui EXCEPT !.output_path = OutputDir])

\* A radio button of the processing type or of the route mode is chosen:
\* the variable is set and on_config_change updates the preview.
OnConfigChange ==
    /\ SessionOpen
    /\ \/ \E processing_type \in ProcessingTypes :
          Handle("on_config_change",
                 update_preview([gui EXCEPT !.processing_type = processing_type]))
       \/ \E route_mode \in RouteModes :
          Handle("on_config_change",
                 update_preview([gui EXCEPT !.route_mode = route_mode]))

\* The button "Scan for Routes".
ScanRoutes ==
    /\ SessionOpen
    /\ Handle("scan_routes", scan_routes(gui))

\* on_route_select: the rows chosen in the list box, in list order.
OnRouteSelect ==
    /\ SessionOpen
    /\ \E selection \in SubSeqsOf(gui.detected_routes) :
        Handle("on_route_select", [gui EXCEPT !.selected_routes = selection])

\* generate_commands
GenerateCommands ==
    /\ SessionOpen
    /\ Handle("generate_commands",
           IF validate_inputs(gui)
           THEN [gui EXCEPT !.command_lines = build_command_lines(gui)]
           ELSE gui)

\* save_config
SaveConfig ==
    /\ SessionOpen
    /\ Handle("save_config",
           [gui EXCEPT !.config_file = <<save_config_data(gui)>>,
                       !.status = "Configuration saved"])

\* load_config_file: the dialog is cancelled when there is no file.
LoadConfigFile ==
    /\ SessionOpen
    /\ Handle("load_config_file",
           IF gui.config_file = <<>> THEN gui
           ELSE load_config_data(gui, gui.config_file[1]))

\* The tool is closed and opened again: __init__ loads the file on disk.
Reopen ==
    /\ SessionOpen
    /\ Handle("load_config", MetashapeConfigTool(gui.config_file))

\* reset_config, confirmed.
ResetConfig ==
    /\ SessionOpen
    /\ Handle("reset_config",
           [FreshTool(gui.config_file) EXCEPT !.status = "Configuration reset"])

\* configure_script_paths(script_folder, custom_paths)
ConfigureScriptPaths ==
    /\ SessionOpen
    /\ Handle("configure_script_paths",
           [gui EXCEPT !.script_base_path = ScriptsDir,
                       !.script_paths = UpdateDict(gui.script_paths, CustomPaths)])

\* DCIM folders of the sessions: route 001 with RGB and multispectral
\* images beside route 002 with RGB images only, and both routes with both.
OneRgb == SubSeq(TenD, 1, 1)
OneMs == SubSeq(EightTif, 1, 1)
ToolDcimFolders ==
    {<<Dir(Folder001, OneRgb \o OneMs), Dir(Folder002, OneRgb)>>,
     <<Dir(Folder001, OneRgb \o OneMs), Dir(Folder002, OneRgb \o OneMs)>>}

\* Configuration files a session may find on disk: none, or one saved by
\* an earlier session with every path set.
ToolConfigFiles ==
    {<<>>} \cup
    {<<[paths |-> [dcim |-> DcimDir, gcp |-> GcpDir, output |-> OutputDir,
                   script_base |-> ScriptsDir],
        processing |-> [type |-> t, mode |-> m],
        script_paths |-> DefaultScriptPaths,
        routes |-> [detected_count |-> 0, selected_routes |-> <<>>]]>> :
        t \in ProcessingTypes, m \in RouteModes}

ToolInit ==
    /\ script = "config_tool"
    /\ ntpath = FALSE
    /\ dcimPath \in DcimPaths
    /\ dcimExists \in BOOLEAN
    /\ dcim \in (IF dcimExists THEN ToolDcimFolders ELSE {<<>>})
    /\ scan = NoScan
    /\ gui \in {MetashapeConfigTool(cf) : cf \in ToolConfigFiles}
    /\ VersionerIdle
    /\ PipelineIdle

ToolNext ==
    \/ BrowseScriptPath
    \/ BrowseDcim
    \/ BrowseGcp
    \/ BrowseOutput
    \/ OnConfigChange
    \/ ScanRoutes
    \/ OnRouteSelect
    \/ GenerateCommands
    \/ SaveConfig
    \/ LoadConfigFile
    \/ Reopen
    \/ ResetConfig
    \/ ConfigureScriptPaths

SpecConfigTool == ToolInit /\ [][ToolNext]_vars

\* A function a script defines: its name in parts, its parameters in
\* order, and how many of them have no default.
Def(name, params, required) == [name |-> name, params |-> params, required |-> required]

PathParams == <<"dcim_path", "output_path", "gcp_path">>
ConfigureDefs ==
    {Def(<<"configure_paths">>, <<"dcim", "gcp", "output">>, 3),
     Def(<<"configure_routes">>,
         <<"route_numbers", "dcim_path", "gcp_path", "output_path">>, 1),
     Def(<<"process_combined_routes">>,
         <<"route_numbers", "dcim_path", "gcp_path", "output_path">>, 0)}

\* The entry points the scripts of the repository define, by file name.  A
\* name that is no file of the repository defines nothing: the exec of the
\* first line fails.
FunctionsOf(file_name) ==
    CASE file_name = "rgb_single_automation_generic.py" ->
            {Def(<<"process_all_routes">>, PathParams, 3),
             Def(<<"process_single_route_by_number">>,
                 <<"route_number">> \o PathParams, 4),
             Def(<<"process_selected_routes">>, <<"route_numbers">> \o PathParams, 4),
             Def(<<"show_available_routes">>, <<"dcim_path">>, 1)}
      [] file_name = "ms_automation_generic.py" ->
            {Def(<<"process_all_routes_ms">>, PathParams, 3),
             Def(<<"process_selected_routes_ms">>,
                 <<"route_numbers">> \o PathParams, 4),
             Def(<<"show_available_routes_ms">>, <<"dcim_path">>, 1)}
      [] file_name = "rgb_ms_single_automation_generic.py" ->
            {Def(<<"process_combined_routes">>, PathParams, 3),
             Def(<<"show_available_combined_routes">>, <<"dcim_path">>, 1)}
      [] file_name = "rgb_combined_automation_generic.py" ->
            ConfigureDefs \cup {Def(<<"run_combined_", "rgb", "_automation">>, <<>>, 0)}
      [] file_name = "ms_combined_automation_generic.py" ->
            ConfigureDefs \cup {Def(<<"run_combined_", "ms", "_automation">>, <<>>, 0)}
      [] file_name = "rgb_ms_combined_automation_generic.py" ->
            ConfigureDefs \cup {Def(<<"run_combined_", "rgb_ms", "_automation">>, <<>>, 0)}
      [] OTHER -> {}

\* Python binds the call of a generated line to the definition d: the
\* positional arguments fill the first parameters, each keyword names a
\* parameter not yet filled, and every parameter without default is given.
CallBinds(line, d) ==
    /\ line.fn = d.name
    /\ line.positional <= Len(d.params)
    /\ \A k \in line.keywords :
          \E i \in (line.positional + 1)..Len(d.params) : d.params[i] = k
    /\ \A i \in (line.positional + 1)..d.required : d.params[i] \in line.keywords

\* The tool ended a load of the configuration file it had saved.
LoadedSavedFile == gui.last_event = "load_config" /\ gui.config_file # <<>>

\* C27: after save_config and then load_config of the same file, the DCIM,
\* GCP, output and script base paths, the processing type, the route mode
\* and the script path overrides equal their values at the save, and the
\* load ends reporting that the configuration was loaded.
C27_ConfigurationRoundTrip ==
    LoadedSavedFile =>
        /\ gui.dcim_path = gui.config_file[1].paths.dcim
        /\ gui.gcp_path = gui.config_file[1].paths.gcp
        /\ gui.output_path = gui.config_file[1].paths.output
        /\ gui.script_base_path = gui.config_file[1].paths.script_base
        /\ gui.processing_type = gui.config_file[1].processing.type
        /\ gui.route_mode = gui.config_file[1].processing.mode
        /\ gui.script_paths = gui.config_file[1].script_paths
        /\ gui.status = "Configuration loaded"

\* C29: after any sequence of events of the tool, every route in
\* selected_routes is one of the current detected_routes, so that
\* generate_commands does not emit a route that is not there.
C29_SelectedRoutesAreDetected ==
    \A i \in 1..Len(gui.selected_routes) :
        \E j \in 1..Len(gui.detected_routes) :
            gui.detected_routes[j].route_number = gui.selected_routes[i].route_number

\* The generated lines load a script under its default name.
GeneratedWithDefaultNames ==
    /\ gui.command_lines # <<>>
    /\ \E k \in DOMAIN DefaultScriptPaths :
          gui.command_lines[1].names[1] = DefaultScriptPaths[k]

\* C30: for every processing type and route mode, every function the
\* generated lines call (configure_paths, configure_routes,
\* process_single_route_by_number, run_combined_<type>_automation) is
\* defined, with parameters the call binds to, by the script the first
\* line loads under its default name.
C30_GeneratedCallsAreDefined ==
    GeneratedWithDefaultNames =>
        \A i \in 2..Len(gui.command_lines) :
            \E d \in FunctionsOf(gui.command_lines[1].names[1]) :
                CallBinds(gui.command_lines[i], d)

====
